---------------------------- MODULE Spec2Model ----------------------------
(***************************************************************************)
(* Definition template resolution of KubeVela: the Complete lifecycle of   *)
(* a workload definition and of a trait definition on one process context  *)
(* (package definition), and the formatting of CUE validation errors.      *)
(***************************************************************************)
EXTENDS Integers, Sequences, FiniteSets, TLC

(***************************************************************************)
(* Bounds of the model.                                                    *)
(***************************************************************************)
\* Complete calls made on one process context.
MaxCalls == 2
\* Auxiliaries registered in one process context.
MaxAux == 3
\* Fields of a patchOutputs struct.
MaxPatchFields == 2
\* Errors in one validation error handed to the formatter.
MaxErrs == 3
\* The number of secondary outputs a component's template can declare.
MaxOutputs == 1
\* The number of entries of a template's config struct.
MaxConfigs == 2
\* The number of addon registries of the cluster.
MaxRegistries == 2

(***************************************************************************)
(* Values.  A resource (model.Instance) is a struct over two fields; 0 is  *)
(* "field not set".  A value that may be missing or invalid is a record    *)
(* with an ok flag.                                                        *)
(***************************************************************************)
Keys == {"k1", "k2"}
Instances == [Keys -> 0..2]

Bad == [ok |-> FALSE]
Good(v) == [ok |-> TRUE, v |-> v]

\* ctx.base: nil, or the instance SetBase stored.
NilBase == [nil |-> TRUE]
Inst(v) == [nil |-> FALSE, v |-> v]

\* The resources a template's output / outputs.<n> evaluates to.
FreshInstances == {[k1 |-> 1, k2 |-> 0]}
\* The values of patch and of patchOutputs.<n>.
PatchValues == {[k1 |-> 2, k2 |-> 0], [k1 |-> 0, k2 |-> 1]}

\* Labels of the fields of outputs and patchOutputs; "" is the label of `"": {...}`.
Labels == {"", "svc", "ing"}

TraitNames == {"expose"}
WorkloadName == "webservice"

AuxiliaryWorkload == "AuxiliaryWorkload"
ParameterFieldName == "parameter"

\* params as handed to Complete: nil, a pointer that marshals to null, an empty
\* map, a map, and a value json.Marshal rejects.
Params == {"nil", "null", "empty", "map", "unmarshalable"}

\* The fields an iterator over outputs may yield (cue.Definitions(true),
\* cue.Hidden(true), cue.All()): regular, optional, definition and hidden fields.
\* A regular field holds a resource or a value model.NewOther rejects.
Selectors == {"regular", "optional", "definition", "hidden"}
Field(label, sel, value) == [label |-> label, sel |-> sel, value |-> value]
Fields ==
    {Field(l, "regular", Good(i)) : l \in Labels, i \in FreshInstances}
    \cup {Field("svc", "regular", Bad)}
    \cup {Field("ing", sel, Good(i)) : sel \in Selectors \ {"regular"}, i \in FreshInstances}

\* The elements of an errs list: strings and values that are no string.
StrElem(s) == [str |-> TRUE, s |-> s]
NoStrElem == [str |-> FALSE, s |-> ""]

VARIABLES
    base,         \* process context: the primary output, NilBase when none is set
    auxiliaries,  \* process context: sequence of [Name, Type, Ins]
    pc,           \* position of the running Complete, "idle" / "done" between calls
    kind,         \* "workload" or "trait": which engine's Complete is running
    name,         \* wd.name / td.name
    paramFile,    \* the parameter layer built from params, until val is validated
    iter,         \* the fields the outputs iterator has yielded so far
    looked,       \* the field of val looked up last, and the value found
    result,       \* Running, Ok (nil error) or the error Complete returned
    base0,        \* the context's base when the call started
    aux0,         \* the context's auxiliaries when the call started
    engines,      \* the engines whose Complete was called on this context, in order
    cueErrs,      \* formatter: the error list handed to formatCueValidationErrors
    components,   \* formatter: what the template and params texts handed to it hold
    formatted,    \* formatter: its result
    val,          \* composition: the root document handed to processComposition
    compiled,     \* composition: what loading and compiling each component gives
    composed,     \* composition: what processComposition returned
    config,       \* render: the config struct of the template, key -> reference
    secrets,      \* render: what ReadConfig finds for the config named in a namespace
    rendered,     \* render: what Render returned, with the ReadConfig calls it made
    cancelled,    \* render: whether the context of the caller is cancelled
    data,         \* data: the entry of the data struct given to getDataFromCue
    call,         \* data: what the provider function returns when it is called
    returned,     \* data: what getDataFromCue returned, with what it gave the provider
    abstractTmpl, \* document: the template handed to Render, its imports and top-level fields
    params,       \* document: the params handed to Render
    assembled,    \* document: what Render returned
    addonParams,  \* addon: the Params of EnableAddon
    registries,   \* addon: what ListRegistries returns, and what installing from each registry gives
    installs,     \* addon: the calls of addon.EnableAddon made, with their options
    addonPc,      \* addon: idle, wait (in waitApplicationRunning) or done
    elapsed,      \* addon: the seconds since waitApplicationRunning started
    observed,     \* addon: what the last Get of the application gave
    enableReturns,\* addon: the Returns and the error of EnableAddon
    cluster,      \* config: the secret of the name asked for in each namespace, if any
    asked,        \* config: the namespace ReadConfig is asked to read from
    readConfig    \* config: what ReadConfig returned, and whether the data was unmarshalled

vars == <<base, auxiliaries, pc, kind, name, paramFile, iter, looked, result, base0,
          aux0, engines, cueErrs, components, formatted, val, compiled, composed,
          config, secrets, rendered, cancelled,
          data, call, returned,
          abstractTmpl, params, assembled,
          addonParams, registries, installs, addonPc, elapsed, observed, enableReturns,
          cluster, asked, readConfig>>

fmtVars == <<cueErrs, components, formatted>>

compVars == <<val, compiled, composed>>

cfgVars == <<config, secrets, rendered, cancelled>>

dataVars == <<data, call, returned>>

docVars == <<abstractTmpl, params, assembled>>

addonVars == <<addonParams, registries, installs, addonPc, elapsed, observed, enableReturns>>

readVars == <<cluster, asked, readConfig>>

(***************************************************************************)
(* model.Instance                                                          *)
(***************************************************************************)
\* Unification fails when the two sides give one field two different values.
Conflicts(a, b) == \E k \in Keys : a[k] /= 0 /\ b[k] /= 0 /\ a[k] /= b[k]

UnifyValue(a, b) == [k \in Keys |-> IF a[k] /= 0 THEN a[k] ELSE b[k]]

(***************************************************************************)
(* The outcome of Complete.                                                *)
(***************************************************************************)
Running == [status |-> "running"]
Ok == [status |-> "nil"]
Err(k, msg) == [status |-> "error", kind |-> k, msg |-> msg]

IsError(r) == r.status = "error"

\* val.LookupPath(field): the field looked up and the value it has.
Looked(field, value) == [field |-> field, value |-> value]
NotLooked == [field |-> ""]


(***************************************************************************)
(* Steps shared by workloadDef.Complete and traitDef.Complete.             *)
(***************************************************************************)
\* return err: the call ends, the context stays as the steps so far left it.
Fail(e) ==
    /\ pc' = "done"
    /\ result' = e
    /\ UNCHANGED <<base, auxiliaries>>

\* return nil
Finish ==
    /\ pc' = "done"
    /\ result' = Ok
    /\ UNCHANGED <<base, auxiliaries>>

\* The call goes on with the next statement; the context is not touched.
Goto(next) ==
    /\ pc' = next
    /\ UNCHANGED <<result, base, auxiliaries>>

\* What a call leaves alone once it has started.
callVars == <<kind, name, base0, aux0, engines>>

\* Complete is entered: the engine is a workloadDef or a traitDef.  A process
\* context serves one component: its workload definition is completed first,
\* its traits after it.
Begin ==
    /\ pc \in {"idle", "done"}
    /\ Len(engines) < MaxCalls
    /\ \E k \in {"workload", "trait"} :
        /\ k = "workload" => engines = <<>>
        /\ kind' = k
        /\ engines' = Append(engines, k)
        /\ name' \in (IF k = "workload" THEN {WorkloadName} ELSE TraitNames)
    /\ pc' = "marshal"
    /\ result' = Running
    /\ base0' = base
    /\ aux0' = auxiliaries
    /\ iter' = <<>>
    /\ looked' = NotLooked
    /\ paramFile' = ""
    /\ UNCHANGED <<base, auxiliaries, fmtVars, compVars, cfgVars, dataVars, docVars, addonVars, readVars>>

\* string(bt) of json.Marshal(params)
Marshalled(p) ==
    CASE p = "null" -> "null"
      [] p = "empty" -> "{}"
      [] OTHER -> "{\"replicas\":1}"

\* The parameter layer: the workload starts from "parameter: {}", the trait
\* adds a parameter line only for params that marshal to something but null.
ParamFileOf(k, p) ==
    IF p = "nil" \/ Marshalled(p) = "null"
    THEN IF k = "workload" THEN ParameterFieldName \o ": {}" ELSE ""
    ELSE ParameterFieldName \o ": " \o Marshalled(p)

Marshal ==
    /\ pc = "marshal"
    /\ \E p \in Params :
        IF p = "unmarshalable"
        THEN /\ Fail(Err("marshal", "marshal parameter of " \o kind \o " " \o name))
             /\ UNCHANGED paramFile
        ELSE /\ paramFile' = ParamFileOf(kind, p)
             /\ Goto("contextfile")
    /\ UNCHANGED <<callVars, iter, looked, fmtVars, compVars, cfgVars, dataVars, docVars, addonVars, readVars>>

\* ctx.BaseContextFile()
ContextFile ==
    /\ pc = "contextfile"
    /\ \/ Goto("compile")
       \/ Fail(Err("contextfile", "base context file"))
    /\ UNCHANGED <<callVars, paramFile, iter, looked, fmtVars, compVars, cfgVars, dataVars, docVars, addonVars, readVars>>

\* cuex.DefaultCompiler.Get().CompileString(...)
Compile ==
    /\ pc = "compile"
    /\ \/ Goto("validate")
       \/ Fail(Err("compile", "failed to compile " \o kind \o " " \o name
                              \o " after merge parameter and context"))
    /\ UNCHANGED <<callVars, paramFile, iter, looked, fmtVars, compVars, cfgVars, dataVars, docVars, addonVars, readVars>>

(***************************************************************************)
(* Diagnostics: CUE validation errors and their formatting.                *)
(*                                                                         *)
(* A raw message is kept with the parts the formatter's regular            *)
(* expressions take it apart into: an optional prefix, the shape, the      *)
(* values in it, and an optional trailing cue/format artifact.             *)
(***************************************************************************)
Artifact == " (value: cue/format: unsupported)"

RawMsg(shape, pre, x, y, art) == [shape |-> shape, pre |-> pre, x |-> x, y |-> y, art |-> art]

Messages ==
    { RawMsg("conflict", "", "60", "1", ""),
      RawMsg("conflict", "field: ", "60", "1", ""),
      RawMsg("bound", "", "1", ">=10", ""),
      RawMsg("interp", "", "", "", ""),
      RawMsg("other", "field not allowed", "", "", ""),
      RawMsg("other", "field not allowed", "", "", Artifact),
      RawMsg("disj", "2", "", "", "") }

\* fmt.Sprintf(format, args...) of cueErr.Msg()
MsgText(m) ==
    CASE m.shape = "conflict" -> m.pre \o "conflicting values " \o m.x \o " and " \o m.y
      [] m.shape = "bound" -> m.pre \o "invalid value " \o m.x \o " (out of bound " \o m.y \o ")"
      [] m.shape = "pattern" -> m.pre \o "does not match pattern " \o m.x
      [] m.shape = "incomplete" -> m.pre \o "incomplete value " \o m.x
      [] m.shape = "interp" -> m.pre \o "invalid interpolation"
      [] m.shape = "ref" -> m.pre \o "reference \"" \o m.x \o "\" not found"
      [] m.shape = "disj" -> m.pre \o " errors in empty disjunction:"
      [] OTHER -> m.pre \o m.art

\* strings.Contains(msg, "errors in empty disjunction")
IsDisjunctionSummary(m) == m.shape = "disj"

\* Paths of the errors, as cueErr.Path() gives them.
Paths == {<<>>, <<"parameter", "replicas">>, <<"output">>}

RECURSIVE Join(_, _)
\* strings.Join(path, sep)
Join(path, sep) ==
    IF Len(path) = 0 THEN ""
    ELSE IF Len(path) = 1 THEN path[1]
    ELSE path[1] \o sep \o Join(Tail(path), sep)

\* PathStr without the name for the empty path.
PathStrJoined(path) == Join(path, ".")

\* pathStr: the dotted path, "(root)" for an error with no path.
PathStr(path) == IF Len(path) > 0 THEN Join(path, ".") ELSE "(root)"

\* A map[string]string: a function on the keys that are set.
EmptyInfo == [k \in {} |-> ""]
Info1(k, v) == [x \in {k} |-> v]
InfoGet(info, k) == IF k \in DOMAIN info THEN info[k] ELSE ""
\* for k, v := range b { if _, exists := a[k]; !exists { a[k] = v } }
MergeMissing(a, b) == [k \in DOMAIN a \cup DOMAIN b |-> IF k \in DOMAIN a THEN a[k] ELSE b[k]]
\* for k, v := range b { a[k] = v }
MergeOver(a, b) == [k \in DOMAIN a \cup DOMAIN b |-> IF k \in DOMAIN b THEN b[k] ELSE a[k]]

\* An enriched message: "(got a, expected b)" and "value a violates constraint
\* b" keep their two values apart for the placeholders, any other text is text
\* followed by its artifact.
Enriched(form, a, b, text, art) == [form |-> form, a |-> a, b |-> b, text |-> text, art |-> art]

EnrichedText(e) ==
    CASE e.form = "mismatch" -> "type mismatch (got " \o e.a \o ", expected " \o e.b \o ")"
      [] e.form = "violates" -> "value " \o e.a \o " violates constraint " \o e.b
      [] OTHER -> e.text \o e.art

extractFieldContext(m) ==
    CASE m.shape = "conflict" ->
            [msg |-> Enriched("mismatch", m.x, m.y, "", ""),
             info |-> MergeOver(Info1("actual", m.x), Info1("expected", m.y))]
      [] m.shape = "bound" ->
            [msg |-> Enriched("violates", m.x, m.y, "", ""),
             info |-> MergeOver(Info1("value", m.x), Info1("constraint", m.y))]
      [] m.shape = "pattern" ->
            [msg |-> Enriched("text", "", "", "must match pattern " \o m.x, ""),
             info |-> Info1("pattern", m.x)]
      [] m.shape = "incomplete" ->
            [msg |-> Enriched("text", "", "", "missing required " \o m.x \o " value", ""),
             info |-> Info1("type", m.x)]
      [] m.shape = "interp" /\ m.pre = "" ->
            [msg |-> Enriched("text", "", "", "string interpolation failed (check variable references)", ""),
             info |-> EmptyInfo]
      [] m.shape = "ref" ->
            [msg |-> Enriched("text", "", "", "undefined reference '" \o m.x \o "'", ""),
             info |-> Info1("missing_ref", m.x)]
      [] m.shape \in {"other"} ->
            [msg |-> Enriched("text", "", "", m.pre, m.art), info |-> EmptyInfo]
      [] OTHER ->
            [msg |-> Enriched("text", "", "", MsgText(m), ""), info |-> EmptyInfo]

\* strings.Trim(s, `"'`)
TrimQuotes(s) == IF s = "\"demo\"" THEN "demo" ELSE s

Provided(v) == "<provided(" \o v \o ")>"
Default(v) == "<default(" \o v \o ")>"

\* replaceValuesWithPlaceholders giving up only when both values are missing.
replaceValuesWithEitherValue(e, fieldInfo) ==
    LET replacedMsg == [e EXCEPT !.art = ""]
        provided == TrimQuotes(InfoGet(fieldInfo, "actual"))
        defaultVal == TrimQuotes(InfoGet(fieldInfo, "default"))
        mark(v) == IF v = defaultVal /\ defaultVal /= "" THEN Default(defaultVal)
                   ELSE IF v = provided /\ provided /= "" THEN Provided(provided)
                   ELSE v
    IN  IF provided = "" /\ defaultVal = "" THEN replacedMsg
        ELSE IF e.form = "mismatch"
             THEN [replacedMsg EXCEPT !.a = mark(e.a), !.b = mark(e.b)]
        ELSE IF e.form = "violates"
             THEN [replacedMsg EXCEPT !.a = mark(e.a)]
        ELSE replacedMsg

replaceValuesWithPlaceholders(e, fieldInfo) ==
    LET replacedMsg == [e EXCEPT !.art = ""]
        provided == TrimQuotes(InfoGet(fieldInfo, "actual"))
        defaultVal == TrimQuotes(InfoGet(fieldInfo, "default"))
        gotReplacement ==
            IF e.a = defaultVal THEN Default(defaultVal)
            ELSE IF e.a = provided THEN Provided(provided)
            ELSE e.a
        expectedReplacement ==
            IF e.b = provided THEN Provided(provided)
            ELSE IF e.b = defaultVal THEN Default(defaultVal)
            ELSE e.b
    IN  IF provided = "" \/ defaultVal = "" THEN replacedMsg
        ELSE IF e.form = "mismatch"
             THEN [replacedMsg EXCEPT !.a = gotReplacement, !.b = expectedReplacement]
        ELSE IF e.form = "violates"
             THEN IF e.a = provided THEN [replacedMsg EXCEPT !.a = Provided(provided)]
                  ELSE IF e.a = defaultVal THEN [replacedMsg EXCEPT !.a = Default(defaultVal)]
                  ELSE replacedMsg
        ELSE replacedMsg

\* What extractValueInfo recovers from the template and params texts for the
\* field at a path: the provided value and its type, the declaration, its default,
\* type and constraint.  The texts are given by what is recovered from them.
NothingExtracted == [p \in Paths |-> EmptyInfo]

ProvidedOnly ==
    [NothingExtracted EXCEPT ![<<"parameter", "replicas">>] =
        MergeOver(Info1("actual", "1"), Info1("provided_type", "int"))]

DefaultOnly ==
    [NothingExtracted EXCEPT ![<<"parameter", "replicas">>] =
        MergeOver(MergeOver(Info1("definition", "*60 | int & >=10"), Info1("default", "60")),
                  MergeOver(Info1("constraint", ">=10"), Info1("expected_type", "int")))]

ProvidedAndDefault ==
    [p \in Paths |-> MergeOver(ProvidedOnly[p], DefaultOnly[p])]

Components == {NothingExtracted, ProvidedOnly, DefaultOnly, ProvidedAndDefault}

extractValueInfo(comps, path) == comps[path]

\* One cueErr: its path and its message.  Value errors are raised on the
\* parameter, structural ones on the output and on the document.
CueError(path, msg) == [path |-> path, msg |-> msg]
CueErrors ==
    {CueError(<<"parameter", "replicas">>, m) : m \in {x \in Messages : x.shape /= "interp"}}
    \cup {CueError(<<"output">>, m) : m \in {x \in Messages : x.shape \in {"other", "disj", "interp"}}}
    \cup {CueError(<<>>, m) : m \in {x \in Messages : x.shape \in {"other", "disj"} /\ x.art = ""}}

\* errorGroups, errorIndex and orderedPaths before the loop.
NoGroups ==
    [orderedPaths |-> <<>>,
     errorGroups |-> [p \in {} |-> <<>>],
     errorIndex |-> [p \in {} |-> [m \in {} |-> 0]]]

\* The key under which an error is looked up in errorIndex[pathStr].
IndexKey(msg, enrichedMsg) == msg

\* One pass of the loop over cueErrs.  Indices count from 1 here.
groupOne(g, cueErr, comps) ==
    LET pathStr == PathStr(cueErr.path)
        msg == MsgText(cueErr.msg)
        g1 == IF pathStr \in DOMAIN g.errorGroups THEN g
              ELSE [orderedPaths |-> Append(g.orderedPaths, pathStr),
                    errorGroups |-> (pathStr :> <<>>) @@ g.errorGroups,
                    errorIndex |-> (pathStr :> [m \in {} |-> 0]) @@ g.errorIndex]
        ctx == extractFieldContext(cueErr.msg)
        fieldInfo == MergeMissing(ctx.info, extractValueInfo(comps, cueErr.path))
        enrichedMsg == EnrichedText(replaceValuesWithPlaceholders(ctx.msg, fieldInfo))
        key == IndexKey(msg, enrichedMsg)
        group == g1.errorGroups[pathStr]
        index == g1.errorIndex[pathStr]
    IN  IF IsDisjunctionSummary(cueErr.msg) THEN g
        ELSE IF key \in DOMAIN index
        THEN [g1 EXCEPT !.errorGroups[pathStr][index[key]].count = @ + 1]
        ELSE [g1 EXCEPT
                !.errorIndex[pathStr] = (key :> (Len(group) + 1)) @@ index,
                !.errorGroups[pathStr] =
                    Append(group, [message |-> enrichedMsg, count |-> 1, info |-> fieldInfo])]

RECURSIVE groupErrors(_, _, _)
\* The loop over cueErrs, from the first error on.
groupErrors(g, errs, comps) ==
    IF errs = <<>> THEN g
    ELSE groupErrors(groupOne(g, Head(errs), comps), Tail(errs), comps)

\* errorMessage without the occurrence count.
errorMessageWithoutCount(detail) == detail.message

\* One element of errorMessages.
errorMessage(detail) ==
    IF detail.count > 1
    THEN detail.message \o " (×" \o ToString(detail.count) \o ")"
    ELSE detail.message

errorMessages(details) == [i \in 1..Len(details) |-> errorMessage(details[i])]

RECURSIVE allInfo(_)
\* The info of all errors of a path merged, later errors over earlier ones.
allInfo(details) ==
    IF details = <<>> THEN EmptyInfo
    ELSE MergeOver(details[1].info, allInfo(Tail(details)))

\* The lines of one path's block.
formatBlock(pathStr, details) ==
    LET info == allInfo(details)
        has(k) == k \in DOMAIN info
        msgs == errorMessages(details)
        line(label, k) == IF has(k) THEN <<label \o info[k]>> ELSE <<>>
        statement ==
            IF has("definition") /\ info["definition"] /= ""
            THEN <<"  statement:    " \o info["definition"]>>
            ELSE IF has("type") /\ info["type"] /= ""
            THEN <<"  statement:    " \o info["type"]>>
            ELSE <<>>
        \* strings.Contains(allInfo["definition"], val), for the declarations modelled
        inStatement(v) == has("definition") /\ info["definition"] = "*60 | int & >=10" /\ v = ">=10"
        constraints ==
            (IF has("constraint") /\ ~inStatement(info["constraint"])
             THEN <<info["constraint"]>> ELSE <<>>)
            \o (IF has("pattern") /\ ~inStatement(info["pattern"])
                THEN <<"pattern: " \o info["pattern"]>> ELSE <<>>)
    IN  <<"\n[" \o pathStr \o "]">>
        \o statement
        \o line("  default:      ", "default")
        \o line("  provided:     ", "actual")
        \o line("  provided type: ", "provided_type")
        \o line("  expected type: ", "expected_type")
        \o (IF Len(constraints) > 0
            THEN <<"  constraints:  " \o Join(constraints, ", ")>> ELSE <<>>)
        \o (IF Len(msgs) = 1
            THEN <<"  error:        " \o msgs[1]>>
            ELSE <<"  errors:       [" \o Join(msgs, ", ") \o "]">>)

RECURSIVE formatBlocks(_, _)
formatBlocks(orderedPaths, errorGroups) ==
    IF orderedPaths = <<>> THEN <<>>
    ELSE formatBlock(Head(orderedPaths), errorGroups[Head(orderedPaths)])
         \o formatBlocks(Tail(orderedPaths), errorGroups)

\* The CueValidationError formatCueValidationErrors returns for a non-nil err:
\* its message, with the groups and the lines it was rendered from.
formatCueValidationErrors(errs, context, comps) ==
    LET g == groupErrors(NoGroups, errs, comps)
        formattedErrors == formatBlocks(g.orderedPaths, g.errorGroups)
    IN  [orderedPaths |-> g.orderedPaths,
         errorGroups |-> g.errorGroups,
         errorIndex |-> g.errorIndex,
         formattedErrors |-> formattedErrors,
         message |-> "CUE validation failed for " \o context \o ":\n"
                     \o Join(formattedErrors, "\n")]

NotFormatted == [orderedPaths |-> <<>>]

(***************************************************************************)
(* Complete, from validation on.                                           *)
(***************************************************************************)
\* The error lists val.Validate() returns inside Complete.
ValidateErrs ==
    { <<CueError(<<"parameter", "replicas">>, RawMsg("conflict", "", "60", "1", ""))>>,
      <<CueError(<<"output">>, RawMsg("other", "field not allowed", "", "", "")),
        CueError(<<"output">>, RawMsg("other", "field not allowed", "", "", ""))>> }

ValidateContext ==
    IF kind = "workload"
    THEN "workload " \o name \o " after merge parameter and context"
    ELSE "trait " \o name \o " after merge with parameter and context"

\* Validate with the output published before the validation result is looked at.
ValidatePublishesFirst ==
    /\ pc = "validate"
    /\ \/ /\ pc' = (IF kind = "workload" THEN "output" ELSE "processing")
          /\ paramFile' = ""
          /\ UNCHANGED <<result, base, auxiliaries, fmtVars>>
       \/ \E errs \in ValidateErrs, comps \in Components, output \in FreshInstances :
            /\ cueErrs' = errs
            /\ components' = comps
            /\ formatted' = formatCueValidationErrors(errs, ValidateContext, comps)
            /\ base' = Inst(output)
            /\ pc' = "done"
            /\ result' = Err("CueValidationError", formatted'.message)
            /\ UNCHANGED <<auxiliaries, paramFile>>
    /\ UNCHANGED <<callVars, iter, looked, compVars, cfgVars, dataVars, docVars, addonVars, readVars>>

\* val.Validate(): nil, or an error that is returned formatted.
Validate ==
    /\ pc = "validate"
    /\ \/ /\ pc' = (IF kind = "workload" THEN "output" ELSE "processing")
          /\ paramFile' = ""
          /\ UNCHANGED <<result, base, auxiliaries, fmtVars>>
       \/ \E errs \in ValidateErrs, comps \in Components :
            /\ cueErrs' = errs
            /\ components' = comps
            /\ formatted' = formatCueValidationErrors(errs, ValidateContext, comps)
            /\ Fail(Err("CueValidationError", formatted'.message))
            /\ UNCHANGED paramFile
    /\ UNCHANGED <<callVars, iter, looked, compVars, cfgVars, dataVars, docVars, addonVars, readVars>>

\* The values of the output field, as model.NewBase takes them: a resource, or
\* a value it rejects.
Outputs == {Bad} \cup {Good(i) : i \in FreshInstances}

\* output := val.LookupPath("output"); model.NewBase(output); ctx.SetBase(base)
WorkloadOutput ==
    /\ pc = "output"
    /\ kind = "workload"
    /\ \E output \in Outputs :
        /\ looked' = Looked("output", output)
        /\ IF ~output.ok
           THEN Fail(Err("NewBase", "invalid output of workload " \o name))
           ELSE \/ /\ base' = Inst(output.v)
                   /\ pc' = "outputs"
                   /\ UNCHANGED <<result, auxiliaries>>
                \/ Fail(Err("SetBase", "set base"))
    /\ UNCHANGED <<callVars, paramFile, iter, fmtVars, compVars, cfgVars, dataVars, docVars, addonVars, readVars>>

\* The position after the outputs of a definition are dealt with: the workload
\* returns nil, the trait goes on to its patch.
AfterOutputs == IF kind = "workload" THEN Finish ELSE Goto("patch")

\* outputs := val.LookupPath("outputs"); outputs.Exists(); outputs.Fields(...)
OutputsLookup ==
    /\ pc = "outputs"
    /\ \/ /\ looked' = Looked("outputs", "absent")
          /\ AfterOutputs
       \/ /\ looked' = Looked("outputs", "nostruct")
          /\ Fail(Err("Fields", "invalid outputs of " \o kind \o " " \o name))
       \/ /\ looked' = Looked("outputs", "struct")
          /\ Goto("iter")
    /\ UNCHANGED <<callVars, paramFile, iter, fmtVars, compVars, cfgVars, dataVars, docVars, addonVars, readVars>>

IsDefinition(f) == f.sel = "definition"
\* Hidden fields are scoped to a package; "_" is the anonymous package.
PkgPath(f) == IF f.sel = "hidden" THEN "_" ELSE ""
IsOptional(f) == f.sel = "optional"

\* Skipped without the test for definitions.
SkippedButDefinitions(f) == PkgPath(f) /= "" \/ IsOptional(f)

\* The fields the loop passes over with `continue`.
Skipped(f) == IsDefinition(f) \/ PkgPath(f) /= "" \/ IsOptional(f)

\* Type of the Auxiliary a definition registers.
AuxiliaryType == IF kind = "workload" THEN AuxiliaryWorkload ELSE name

\* The Auxiliary registered for a field of outputs.
AuxiliaryOf(f) == [Name |-> f.label, Type |-> AuxiliaryType, Ins |-> f.value.v]

\* The labels of the fields yielded so far: a struct has one field per label.
IterLabels == {iter[i].label : i \in 1..Len(iter)}

\* One pass of `for iter.Next() {...}` over the fields of outputs, or its end.
OutputsNext ==
    /\ pc = "iter"
    /\ \/ /\ AfterOutputs
          /\ iter' = (IF kind = "workload" THEN iter ELSE <<>>)
       \/ /\ Len(auxiliaries) < MaxAux
          /\ \E f \in Fields :
              /\ f.label \notin IterLabels
              /\ iter' = Append(iter, f)
              /\ IF Skipped(f)
                 THEN Goto("iter")
                 ELSE IF ~f.value.ok
                 THEN Fail(Err("NewOther",
                               IF kind = "workload"
                               THEN "invalid outputs(" \o f.label \o ") of workload " \o name
                               ELSE "invalid outputs(resource=" \o f.label \o ") of trait " \o name))
                 ELSE \/ /\ auxiliaries' = Append(auxiliaries, AuxiliaryOf(f))
                         /\ pc' = "iter"
                         /\ UNCHANGED <<result, base>>
                      \/ Fail(Err("AppendAuxiliaries", "append auxiliaries"))
    /\ UNCHANGED <<callVars, paramFile, looked, fmtVars, compVars, cfgVars, dataVars, docVars, addonVars, readVars>>

(***************************************************************************)
(* traitDef.Complete: processing, patch, patchOutputs, errs.               *)
(***************************************************************************)
\* TraitProcessing with the error of task.Process kept while the call goes on.
TraitProcessingGoesOn ==
    /\ pc = "processing"
    /\ kind = "trait"
    /\ \/ /\ looked' = Looked("processing", FALSE)
          /\ Goto("outputs")
       \/ /\ looked' = Looked("processing", TRUE)
          /\ \/ /\ pc' = "outputs"
                /\ UNCHANGED <<result, base, auxiliaries>>
             \/ /\ pc' = "outputs"
                /\ result' = Err("Process", "invalid process of trait " \o name)
                /\ UNCHANGED <<base, auxiliaries>>
    /\ UNCHANGED <<callVars, paramFile, iter, fmtVars, compVars, cfgVars, dataVars, docVars, addonVars, readVars>>

\* processing := val.LookupPath("processing"); task.Process(val)
TraitProcessing ==
    /\ pc = "processing"
    /\ kind = "trait"
    /\ \/ /\ looked' = Looked("processing", FALSE)
          /\ Goto("outputs")
       \/ /\ looked' = Looked("processing", TRUE)
          /\ \/ /\ pc' = "outputs"
                /\ UNCHANGED <<result, base, auxiliaries>>
             \/ Fail(Err("Process", "invalid process of trait " \o name))
    /\ UNCHANGED <<callVars, paramFile, iter, fmtVars, compVars, cfgVars, dataVars, docVars, addonVars, readVars>>

\* The values of the patch field: none, or a struct.
Patchers == {Bad} \cup {Good(v) : v \in PatchValues}

\* TraitPatch without the test for a nil base: the patch becomes the base.
TraitPatchNoNilCheck ==
    /\ pc = "patch"
    /\ kind = "trait"
    /\ \E patcher \in Patchers :
        /\ looked' = Looked("patch", patcher)
        /\ IF ~patcher.ok
           THEN Goto("patchOutputs")
           ELSE IF base /= NilBase /\ Conflicts(base.v, patcher.v)
           THEN Fail(Err("Unify", "invalid patch trait " \o name \o " into workload"))
           ELSE /\ base' = (IF base = NilBase THEN Inst(patcher.v)
                            ELSE Inst(UnifyValue(base.v, patcher.v)))
                /\ pc' = "patchOutputs"
                /\ UNCHANGED <<result, auxiliaries>>
    /\ UNCHANGED <<callVars, paramFile, iter, fmtVars, compVars, cfgVars, dataVars, docVars, addonVars, readVars>>

\* patcher := val.LookupPath("patch"); base.Unify(patcher, ...)
TraitPatch ==
    /\ pc = "patch"
    /\ kind = "trait"
    /\ \E patcher \in Patchers :
        /\ looked' = Looked("patch", patcher)
        /\ IF ~patcher.ok
           THEN Goto("patchOutputs")
           ELSE IF base = NilBase
           THEN Fail(Err("InvalidWorkload", "patch trait " \o name \o " into an invalid workload"))
           ELSE IF Conflicts(base.v, patcher.v)
           THEN Fail(Err("Unify", "invalid patch trait " \o name \o " into workload"))
           ELSE /\ base' = Inst(UnifyValue(base.v, patcher.v))
                /\ pc' = "patchOutputs"
                /\ UNCHANGED <<result, auxiliaries>>
    /\ UNCHANGED <<callVars, paramFile, iter, fmtVars, compVars, cfgVars, dataVars, docVars, addonVars, readVars>>

\* The values of the patchOutputs field: no field, or a struct with, for every
\* label, no field or a struct.
OutputsPatchers ==
    {[exists |-> FALSE]}
    \cup {[exists |-> TRUE, fields |-> f] : f \in
            {g \in [Labels -> Patchers] :
                Cardinality({l \in Labels : g[l].ok}) <= MaxPatchFields}}

\* Target with the lookup by a fixed label instead of the auxiliary's name.
TargetOfFixedLabel(outputsPatcher, auxiliary) == outputsPatcher.fields["svc"]

\* target := outputsPatcher.LookupPath(auxiliary.Name)
Target(outputsPatcher, auxiliary) == outputsPatcher.fields[auxiliary.Name]

RECURSIVE patchAuxiliaries(_, _, _)
\* The loop over the auxiliaries from the i-th on: the auxiliaries it leaves, and
\* the index of the one whose Unify failed (0 when none did).
patchAuxiliaries(auxs, outputsPatcher, i) ==
    IF i > Len(auxs) THEN [auxiliaries |-> auxs, failed |-> 0]
    ELSE LET target == Target(outputsPatcher, auxs[i])
         IN  IF ~target.ok THEN patchAuxiliaries(auxs, outputsPatcher, i + 1)
             ELSE IF Conflicts(auxs[i].Ins, target.v)
             THEN [auxiliaries |-> auxs, failed |-> i]
             ELSE patchAuxiliaries([auxs EXCEPT ![i].Ins = UnifyValue(@, target.v)],
                                   outputsPatcher, i + 1)

\* outputsPatcher := val.LookupPath("patchOutputs"); the loop over auxiliaries
TraitPatchOutputs ==
    /\ pc = "patchOutputs"
    /\ kind = "trait"
    /\ \E outputsPatcher \in OutputsPatchers :
        /\ looked' = Looked("patchOutputs", outputsPatcher)
        /\ IF ~outputsPatcher.exists
           THEN Goto("errs")
           ELSE LET r == patchAuxiliaries(auxiliaries, outputsPatcher, 1)
                IN  /\ auxiliaries' = r.auxiliaries
                    /\ UNCHANGED base
                    /\ IF r.failed = 0
                       THEN /\ pc' = "errs"
                            /\ UNCHANGED result
                       ELSE /\ pc' = "done"
                            /\ result' = Err("UnifyAuxiliary",
                                   "trait=" \o name \o ", to=" \o auxiliaries[r.failed].Name
                                   \o ", invalid patch trait into auxiliary workload")
    /\ UNCHANGED <<callVars, paramFile, iter, fmtVars, compVars, cfgVars, dataVars, docVars, addonVars, readVars>>

\* The values of the errs field: no field, a value that is no list, or a list.
ErrsLists ==
    { <<>>, <<StrElem("")>>, <<NoStrElem>>, <<StrElem("e1")>>,
      <<StrElem(""), NoStrElem>>, <<StrElem("e1"), StrElem("e2")>>,
      <<StrElem("e2"), StrElem("e1")>>, <<NoStrElem, StrElem("e2")>>,
      <<StrElem(""), StrElem("e1"), StrElem("e2")>> }
ErrsValues ==
    {[exists |-> FALSE, list |-> FALSE, elems |-> <<>>],
     [exists |-> TRUE, list |-> FALSE, elems |-> <<>>]}
    \cup {[exists |-> TRUE, list |-> TRUE, elems |-> l] : l \in ErrsLists}

RECURSIVE lastError(_)
\* firstError with the loop running on after a hit: the last non-empty string.
lastError(elems) ==
    IF elems = <<>> THEN Ok
    ELSE IF lastError(Tail(elems)) /= Ok THEN lastError(Tail(elems))
    ELSE IF Head(elems).str /\ Head(elems).s /= "" THEN Err("errs", Head(elems).s)
    ELSE Ok

RECURSIVE firstError(_)
\* The loop of parseErrors: the first element that is a non-empty string.
firstError(elems) ==
    IF elems = <<>> THEN Ok
    ELSE IF Head(elems).str /\ Head(elems).s /= "" THEN Err("errs", Head(elems).s)
    ELSE firstError(Tail(elems))

parseErrors(errs) == IF errs.list THEN firstError(errs.elems) ELSE Ok

\* errs := val.LookupPath("errs"); parseErrors(errs); return nil
TraitErrs ==
    /\ pc = "errs"
    /\ kind = "trait"
    /\ \E errs \in ErrsValues :
        /\ looked' = Looked("errs", errs)
        /\ pc' = "done"
        /\ result' = (IF errs.exists THEN parseErrors(errs) ELSE Ok)
        /\ UNCHANGED <<base, auxiliaries>>
    /\ UNCHANGED <<callVars, paramFile, iter, fmtVars, compVars, cfgVars, dataVars, docVars, addonVars, readVars>>

(***************************************************************************)
(* processComposition: the components of a composition are resolved, the   *)
(* root's output and outputs are assembled from them.                      *)
(*                                                                         *)
(* A string that is taken apart is kept as the sequence of its names and   *)
(* separators: "a.output" is <<"a", ".", "output">>.                       *)
(***************************************************************************)
\* A cue.Value that is a resource, or one that does not exist.
Absent == [exists |-> FALSE]
Res(r) == [exists |-> TRUE, r |-> r]
Resources == {"X", "Y"}

\* An outputs struct: its fields, or no struct.
NoOutputs == [exists |-> FALSE]
Outs(fields) == [exists |-> TRUE, fields |-> fields]
NoFields == [k \in {} |-> Absent]

\* The component keys of composition.components, in the order of the document.
ComponentKeys == <<"a", "b">>

\* The labels a component's outputs can have.
OutputKeys == {<<"svc", "cm", "pvc">>[i] : i \in 1..MaxOutputs}

OutputsStructs ==
    {NoOutputs} \cup UNION {{Outs(f) : f \in [ks -> {Res(r) : r \in Resources}]} :
                              ks \in SUBSET OutputKeys}

\* What template.LoadTemplate and cuex.CompileStringWithOptions give for a
\* component: no template, a document that does not compile, or compVal.
Child(status, output, outputs) == [status |-> status, output |-> output, outputs |-> outputs]
Children ==
    {Child("noTemplate", Absent, NoOutputs), Child("noCompile", Absent, NoOutputs)}
    \cup {Child("ok", Res(r), o) : r \in Resources, o \in OutputsStructs}

\* The texts of composition.output.
OutputRefs ==
    { <<"a", ".", "output">>, <<"b", ".", "output">>, <<"a", ",", "output">>,
      <<"b", ".", "outputs", ".", "svc">> }

\* The root documents: output and outputs of the base template, and
\* composition.output.
Document(output, outputs, ref) == [output |-> output, outputs |-> outputs, compositionOutput |-> ref]
Documents ==
    {Document(o, os, ref) :
        o \in {Absent} \cup {Res(r) : r \in Resources},
        os \in {NoOutputs} \cup {Outs(f) : f \in [{"std"} -> {Res(r) : r \in Resources}]},
        ref \in {Absent} \cup {[exists |-> TRUE, text |-> t] : t \in OutputRefs}}

RECURSIVE Concat(_)
\* The text as one string.
Concat(text) == IF text = <<>> THEN "" ELSE Head(text) \o Concat(Tail(text))

RECURSIVE Split(_, _)
\* strings.Split(text, sep)
Split(text, sep) ==
    IF \A i \in 1..Len(text) : text[i] /= sep THEN <<text>>
    ELSE LET i == CHOOSE i \in 1..Len(text) :
                     text[i] = sep /\ \A j \in 1..(i - 1) : text[j] /= sep
         IN  <<SubSeq(text, 1, i - 1)>> \o Split(SubSeq(text, i + 1, Len(text)), sep)

RECURSIVE JoinTexts(_, _)
JoinTexts(texts, sep) ==
    IF Len(texts) = 0 THEN <<>>
    ELSE IF Len(texts) = 1 THEN texts[1]
    ELSE texts[1] \o <<sep>> \o JoinTexts(Tail(texts), sep)

\* FieldPath with a text that holds dots taken as one label.
FieldPathOfLabels(paths) == [i \in 1..Len(paths) |-> Concat(paths[i])]

\* value.FieldPath(paths...): the selectors of the path the strings spell, a
\* string with dots in it giving one selector per segment.
FieldPath(paths) ==
    LET segments == Split(JoinTexts(paths, "."), ".")
    IN  [i \in 1..Len(segments) |-> Concat(segments[i])]

\* compValOutput.Equals(standardOutput)
Equals(a, b) == a.exists /\ b.exists /\ a.r = b.r

\* components.LookupPath(path): the value at <key>.output or <key>.outputs.<label>.
LookupComponents(resolved, path) ==
    IF Len(path) = 2 /\ path[1] \in DOMAIN resolved /\ path[2] = "output"
    THEN resolved[path[1]].output
    ELSE IF /\ Len(path) = 3
            /\ path[1] \in DOMAIN resolved
            /\ path[2] = "outputs"
            /\ resolved[path[1]].outputs.exists
            /\ path[3] \in DOMAIN resolved[path[1]].outputs.fields
    THEN resolved[path[1]].outputs.fields[path[3]]
    ELSE Absent

\* processComponent: the output and outputs filled in at
\* composition.components.<componentKey>; nothing is filled in from a child
\* that did not load or compile.
processComponent(child) == [output |-> child.output, outputs |-> child.outputs]

\* Whether the errors processComponent ignores were raised for a component.
Failed(child) == child.status /= "ok"

\* The conflict test without the look at the root's output.
OutputConflictNever(doc) == FALSE

\* composition.output exists and the root document has an output.
OutputConflict(doc) == doc.compositionOutput.exists /\ doc.output.exists

\* The root document with its output filled from composition.output.
fillOutput(doc, resolved) ==
    IF doc.compositionOutput.exists
    THEN [doc EXCEPT !.output =
            LookupComponents(resolved, FieldPath(Split(doc.compositionOutput.text, ",")))]
    ELSE doc

\* The main output of a component is kept whatever the standard output is.
KeepsMainAlways(compValOutput, standardOutput) == TRUE

\* The main output of a component gets an entry unless it equals the standard output.
KeepsMain(compValOutput, standardOutput) == ~Equals(compValOutput, standardOutput)

MainKey(compKey) == compKey \o ".main"

\* compOutputsIter.Label() + "." + compOutputKey
SecondaryKey(compKey, compOutputKey) == compOutputKey \o "." \o compOutputKey

\* The entries one component adds to outputs, later entries over earlier ones.
addComponent(outputs, compKey, compVal, standardOutput) ==
    LET main == IF KeepsMain(compVal.output, standardOutput)
                THEN (MainKey(compKey) :> compVal.output) @@ outputs
                ELSE outputs
        fields == IF compVal.outputs.exists THEN compVal.outputs.fields ELSE NoFields
        kept == {k \in DOMAIN fields : ~Equals(fields[k], standardOutput)}
        secondary == [x \in {SecondaryKey(compKey, k) : k \in kept} |->
                         fields[CHOOSE k \in kept : SecondaryKey(compKey, k) = x]]
    IN  secondary @@ main

RECURSIVE addComponents(_, _, _, _)
\* The loop over the components, from the first of keys on.
addComponents(outputs, keys, resolved, standardOutput) ==
    IF keys = <<>> THEN outputs
    ELSE addComponents(addComponent(outputs, Head(keys), resolved[Head(keys)], standardOutput),
                       Tail(keys), resolved, standardOutput)

\* What processComposition returns: an error, or the root document with its
\* output and outputs set and the components resolved.
processComposition(doc, children) ==
    LET resolved == [c \in DOMAIN children |-> processComponent(children[c])]
        filled == fillOutput(doc, resolved)
        standardOutput == filled.output
        standardOutputs == IF filled.outputs.exists THEN filled.outputs.fields ELSE NoFields
        outputs == addComponents(standardOutputs, ComponentKeys, resolved, standardOutput)
    IN  IF OutputConflict(doc)
        THEN Err("composition", "cannot declare output in base template and composition")
        ELSE [status |-> "nil",
              val |-> [filled EXCEPT !.outputs = Outs(outputs)],
              components |-> resolved]

\* The call did not return: a nil template or an invalid value was used.
Panic == [status |-> "panic"]

NoDocument == [exists |-> FALSE]
NoChildren == [c \in {} |-> Absent]

\* The composition variables outside a composition.
NoComposition == val = NoDocument /\ compiled = NoChildren /\ composed = Running

(***************************************************************************)
(* Render: the config references of a template are resolved with           *)
(* ReadConfig and put into the assembled document, by                      *)
(* ComponentRenderEngine (render.go) and ComponentDataRenderer             *)
(* (datarender.go).                                                        *)
(***************************************************************************)
\* The value of a field of a config reference: none, a string, no string.
Missing == [exists |-> FALSE, str |-> FALSE, s |-> ""]
StrValue(str) == [exists |-> TRUE, str |-> TRUE, s |-> str]
NonString == [exists |-> TRUE, str |-> FALSE, s |-> ""]

\* v.String(): the string, "" with an error for a value that is no string.
String(v) == [s |-> IF v.str THEN v.s ELSE "", err |-> ~v.str]

SystemDefinitionNamespace == "vela-system"
Namespaces == {"ns", SystemDefinitionNamespace}

\* A config reference.
ConfigReference(n, ns) == [name |-> n, namespace |-> ns]
ConfigReferences ==
    {ConfigReference(n, ns) : n \in {Missing, StrValue("n"), NonString},
                              ns \in {Missing, StrValue("ns"), NonString}}

\* The keys of the config struct, in the order of the document.
ConfigKeys == SubSeq(<<"db", "cache", "queue">>, 1, MaxConfigs)
Configs ==
    UNION {[ks -> ConfigReferences] : ks \in SUBSET {ConfigKeys[i] : i \in 1..Len(ConfigKeys)}}

\* The keys of a config struct in the order of the document.
KeysOf(cfg) == SelectSeq(ConfigKeys, LAMBDA k : k \in DOMAIN cfg)

\* The properties of a config, as json.Unmarshal gives them.
Contents == {("quadrant-name" :> "dev"), ("host" :> "db" @@ "port" :> "5432")}
NoContent == [k \in {} |-> ""]

\* What common.ReadConfig returns: the properties, or nil and an error.
ReadOk(content) == [ok |-> TRUE, content |-> content]
ReadFailed == [ok |-> FALSE, content |-> NoContent]
Reads == {ReadFailed} \cup {ReadOk(m) : m \in Contents}

\* common.ReadConfig(ctx, client, namespace, name): client.Get of the secret;
\* there is no secret with an empty name.
ReadConfig(store, namespace, n) == IF n = "" THEN ReadFailed ELSE store[namespace]

\* getConfigFromCueVal: the properties or an error, and whether and with what
\* ReadConfig was called.
Resolution(key, called, namespace, n, read, msg) ==
    [key |-> key, called |-> called, namespace |-> namespace, name |-> n,
     ok |-> read.ok, content |-> read.content, msg |-> msg]

getConfigFromCueVal(store, key, reference) ==
    IF ~reference.name.exists
    THEN Resolution(key, FALSE, "", "", ReadFailed,
                    "Invalid configuration provided in field config." \o key
                    \o ". Must specify name field.")
    ELSE LET cfgNameStr == String(reference.name).s
         IN  IF reference.namespace.exists /\ String(reference.namespace).err
             THEN Resolution(key, FALSE, "", cfgNameStr, ReadFailed, "cannot use value as string")
             ELSE LET cfgNamespaceStr == IF reference.namespace.exists
                                         THEN String(reference.namespace).s
                                         ELSE SystemDefinitionNamespace
                      read == ReadConfig(store, cfgNamespaceStr, cfgNameStr)
                  IN  Resolution(key, TRUE, cfgNamespaceStr, cfgNameStr, read,
                                 IF read.ok THEN "" ELSE "read config")

\* The resolutions of the entries of keys, in their order.
resolveAll(store, cfg, keys) ==
    [i \in 1..Len(keys) |-> getConfigFromCueVal(store, keys[i], cfg[keys[i]])]

\* The resolutions up to and with the first that failed.
UpToFirstError(resolutions) ==
    IF \A i \in 1..Len(resolutions) : resolutions[i].ok THEN resolutions
    ELSE SubSeq(resolutions, 1,
                CHOOSE i \in 1..Len(resolutions) :
                    ~resolutions[i].ok /\ \A j \in 1..(i - 1) : resolutions[j].ok)

\* ComponentRenderEngine.GetConfiguration: configMap[configKey] = content for
\* every entry, or the first error; with the resolutions made.
GetConfiguration(store, cfg) ==
    LET resolutions == UpToFirstError(resolveAll(store, cfg, KeysOf(cfg)))
        failed == \E i \in 1..Len(resolutions) : ~resolutions[i].ok
    IN  [err |-> IF failed THEN Err("config", resolutions[Len(resolutions)].msg) ELSE Ok,
         configMap |-> IF failed THEN [k \in {} |-> NoContent]
                       ELSE [k \in DOMAIN cfg |->
                               resolutions[CHOOSE i \in 1..Len(resolutions) :
                                               resolutions[i].key = k].content],
         resolutions |-> resolutions]

\* The document a Render returns: the entries of its config struct.
NoDoc == [exists |-> FALSE]
Doc(entries) == [exists |-> TRUE, config |-> entries]

\* What a Render returns, with the resolutions it made on the way.
Rendered(renderer, err, document, resolutions) ==
    [renderer |-> renderer, err |-> err, document |-> document, resolutions |-> resolutions]
NotRendered == [renderer |-> ""]

\* Render of render.go with a config it could resolve or not: the error of
\* GetConfiguration is dropped and the template is executed with what it gave.
renderConfig(store, cfg) ==
    LET got == GetConfiguration(store, cfg)
    IN  Rendered("component", Ok, Doc(got.configMap), got.resolutions)

\* What FillPath makes of the nil map of a resolution that failed: no field,
\* or a field without properties.
NilFills == {"absent", "empty"}

\* $config.<configKey>.output filled with the properties, next to the fields
\* of the reference.
DataEntry(reference, resolution, nilFill) ==
    ("name" :> reference.name) @@ ("namespace" :> reference.namespace)
    @@ (IF resolution.ok THEN ("output" :> resolution.content)
        ELSE IF nilFill = "empty" THEN ("output" :> NoContent)
        ELSE [k \in {} |-> NoContent])

\* ComponentDataRenderer.Render: every entry is resolved, errors dropped.
renderData(store, cfg, nilFill) ==
    LET keys == KeysOf(cfg)
        resolutions == resolveAll(store, cfg, keys)
    IN  Rendered("data", Ok,
                 Doc([k \in DOMAIN cfg |->
                        DataEntry(cfg[k], resolutions[CHOOSE i \in 1..Len(keys) : keys[i] = k],
                                  nilFill)]),
                 resolutions)

\* k8sClient.Get of configprocessor.Cmd.Run: the ConfigMap of that name in
\* that namespace; there is none with an empty name or namespace.
Get(store, namespace, n) ==
    IF n = "" \/ namespace \notin DOMAIN store THEN ReadFailed ELSE store[namespace]

\* configprocessor.Cmd.Run: both name and namespace must be there; the error
\* of either String() is overwritten by the one of Get.
configprocessorRun(store, key, reference) ==
    IF ~reference.name.exists
    THEN Resolution(key, FALSE, "", "", ReadFailed, "config specifies no name")
    ELSE IF ~reference.namespace.exists
    THEN Resolution(key, FALSE, "", String(reference.name).s, ReadFailed,
                    "config specifies no namespace")
    ELSE LET read == Get(store, String(reference.namespace).s, String(reference.name).s)
         IN  Resolution(key, TRUE, String(reference.namespace).s, String(reference.name).s,
                        read, IF read.ok THEN "" ELSE "not found")

\* The shape of the ConfigMap read: its properties under input-properties
\* (Run returns a map[string]any) or as its data (a map[string]string).
DataShapes == {"input-properties", "data"}

\* exec of configprocessor: what Run returned when it is a map[string]string,
\* nil otherwise.
configprocessorExec(resolution, shape) ==
    IF resolution.ok /\ shape = "data" THEN resolution.content ELSE NoContent

\* configprocessor.Process: config.<configKey>.output is an empty struct
\* filled with what exec returned; no error is returned.
Process(store, cfg, shape) ==
    LET keys == KeysOf(cfg)
        resolutions == [i \in 1..Len(keys) |-> configprocessorRun(store, keys[i], cfg[keys[i]])]
    IN  Rendered("configprocessor", Ok,
                 Doc([k \in DOMAIN cfg |->
                        ("name" :> cfg[k].name) @@ ("namespace" :> cfg[k].namespace)
                        @@ ("output" :> configprocessorExec(
                                resolutions[CHOOSE i \in 1..Len(keys) : keys[i] = k], shape))]),
                 resolutions)

\* The context a renderer makes its reads under: the one of its caller
\* (ctx.GetCtx()), or context.Background().
RunsUnder(renderer) == IF renderer = "configprocessor" THEN "background" ELSE "caller"

\* What the reads of a renderer find: a read under a cancelled context fails.
Seen(store, renderer, isCancelled) ==
    IF isCancelled /\ RunsUnder(renderer) = "caller"
    THEN [ns \in DOMAIN store |-> ReadFailed]
    ELSE store

\* The render variables outside a render.
NoConfigs == [k \in {} |-> Missing]
NoSecrets == [ns \in {} |-> ReadFailed]
NoRender ==
    config = NoConfigs /\ secrets = NoSecrets /\ rendered = NotRendered /\ cancelled = FALSE

(***************************************************************************)
(* getDataFromCue: an entry of the data struct names a provider and a      *)
(* function of it; the function is called with the entry and the $returns  *)
(* of its result is the data (datarender.go).                              *)
(***************************************************************************)
\* The providers of the compiler, and the functions every one of them has.
Providers == {"kube"}
ProviderFns == {"get", "list"}

\* The params of an entry.
ParamsValues == {("url" :> "a"), ("url" :> "b")}

\* An entry of the data struct: some of the fields provider, function, params.
DataEntries ==
    UNION {{p @@ f @@ a :
              p \in IF "provider" \in fs
                    THEN {("provider" :> v) : v \in {StrValue("kube"), StrValue("helm"), NonString}}
                    ELSE {<<>>},
              f \in IF "function" \in fs
                    THEN {("function" :> StrValue(fn)) : fn \in ProviderFns}
                    ELSE {<<>>},
              a \in IF "params" \in fs
                    THEN {("params" :> v) : v \in ParamsValues}
                    ELSE {<<>>}}
           : fs \in SUBSET {"provider", "function", "params"}}

\* What fn.Call returns: an error, or a result that has a $returns or not.
CallFailed == [ok |-> FALSE, returns |-> Absent]
CallResult(returns) == [ok |-> TRUE, returns |-> returns]
Calls == {CallFailed, CallResult(Absent)} \cup {CallResult(Res(r)) : r \in Resources}

\* What getDataFromCue returns: the value and the error, with whether the
\* provider function was called and the entry it was called with.
Data(err, value, called, passed) ==
    [err |-> err, value |-> value, called |-> called, passed |-> passed]
NoData_ == <<>>

\* data.FillPath("$params", paramsAlias) when params exists.
fillParams(entry) ==
    IF "params" \in DOMAIN entry THEN entry @@ ("$params" :> entry["params"]) ELSE entry

\* getDataFromCue that returns the result of the call as it is.
getDataFromCueWholeResult(key, entry, outcome) ==
    IF "provider" \notin DOMAIN entry
    THEN Data(Err("data", "provider not set in data." \o key), Absent, FALSE, NoData_)
    ELSE IF "function" \notin DOMAIN entry
    THEN Data(Err("data", "function not set in data." \o key), Absent, FALSE, NoData_)
    ELSE IF String(entry["provider"]).s \in Providers
    THEN IF ~outcome.ok
         THEN Data(Err("data", "call failed"), Absent, TRUE, fillParams(entry))
         ELSE Data(Ok, Res("result"), TRUE, fillParams(entry))
    ELSE Data(Err("data", "no package " \o String(entry["provider"]).s
                          \o " found in compiler"), Absent, FALSE, NoData_)

getDataFromCue(key, entry, outcome) ==
    IF "provider" \notin DOMAIN entry
    THEN Data(Err("data", "provider not set in data." \o key), Absent, FALSE, NoData_)
    ELSE IF "function" \notin DOMAIN entry
    THEN Data(Err("data", "function not set in data." \o key), Absent, FALSE, NoData_)
    ELSE LET providerStr == String(entry["provider"]).s
             passed == fillParams(entry)
         IN  IF providerStr \in Providers
             THEN IF ~outcome.ok
                  THEN Data(Err("data", "call failed"), Absent, TRUE, passed)
                  ELSE Data(Ok, outcome.returns, TRUE, passed)
             ELSE Data(Err("data", "no package " \o providerStr \o " found in compiler"),
                       Absent, FALSE, NoData_)

\* The data variables outside a getDataFromCue.
NotResolved == [called |-> FALSE, pending |-> TRUE]
NoData == data = <<>> /\ call = CallFailed /\ returned = NotResolved

(***************************************************************************)
(* The document Render assembles from a template: Renderer.Render and      *)
(* Render with the ComponentRenderEngine (render.go), and the text         *)
(* ComponentDataRenderer.Render assembles (datarender.go).                 *)
(***************************************************************************)
\* var reserved
reserved == {"output", "outputs", "parameter", "context", "config"}

\* A top-level field of a template: its name and whether it is a regular, a
\* definition, a hidden or an optional field.
TopField(n, k) == [name |-> n, kind |-> k]

\* The top-level fields a template can have, in the order it has them.
FieldPool ==
    <<TopField("config", "regular"), TopField("test", "regular"), TopField("parameter", "regular"),
      TopField("#helper", "definition"), TopField("output", "regular"), TopField("_local", "hidden"),
      TopField("note", "optional"), TopField("outputs", "regular")>>

\* The templates: with an import or none, and some fields of the pool.
AbstractTemplates ==
    {[imports |-> i,
      fields |-> SelectSeq(FieldPool, LAMBDA f : f.name \in ns)]
        : i \in BOOLEAN, ns \in SUBSET {FieldPool[j].name : j \in 1..Len(FieldPool)}}

\* params as handed to Renderer.Render: the nil interface, a nil map, an
\* empty map, a map with values.
RenderParams == {"nil", "nilmap", "empty", "map"}

\* The text of the value of a field, as format.Node gives it.
Syntax(n) == "<" \o n \o ">"
OpenDeclaration == "[string]: _"
EmptyStruct == "{}"

\* A part of a document: the label it is written under, its text and what it
\* is.
Line(label, text, part) == [label |-> label, text |-> text, part |-> part]

\* PreRender: the template compiled with the base context file after it.
PreRender(tmpl) == tmpl.fields \o <<TopField("context", "regular")>>

\* tmplCue.LookupPath(path).Exists()
HasField(tmplCue, n) == \E i \in 1..Len(tmplCue) : tmplCue[i].name = n

\* GetContext, GetParameterTemplate, GetOutput, GetOutputs: the syntax of the
\* field, {} without it.
SyntaxOrEmpty(tmplCue, n) == IF HasField(tmplCue, n) THEN Syntax(n) ELSE EmptyStruct

\* GetImports: the import declaration of the template, "" without imports.
GetImports(tmpl) == IF tmpl.imports THEN "import (...)" ELSE ""

\* GetParameters: {} for a nil or empty map, the marshalled map otherwise.
GetParameters(p) == IF p = "map" THEN Syntax("params") ELSE EmptyStruct

\* tmplCue.TopFields(): the regular fields, in order.
TopFields(tmplCue) == SelectSeq(tmplCue, LAMBDA f : f.kind = "regular")

\* GetFields that echoes every regular field.
GetFieldsWithReserved(tmplCue) ==
    [i \in 1..Len(TopFields(tmplCue)) |->
        Line(TopFields(tmplCue)[i].name, Syntax(TopFields(tmplCue)[i].name), "field")]

\* GetFields: "name: syntax" for every field the iterator yields whose name
\* is not reserved.
GetFields(tmplCue) ==
    LET kept == SelectSeq(TopFields(tmplCue), LAMBDA f : f.name \notin reserved)
    IN  [i \in 1..Len(kept) |-> Line(kept[i].name, Syntax(kept[i].name), "field")]

\* What a Render returns: the document, and the renderer it is of.
RenderedTemplate(by, lines) == [status |-> "nil", by |-> by, lines |-> lines]
NotAssembled == [status |-> "running"]

\* Render: the template text executed with the eight parts, Imports and
\* Fields only when they are not empty.
AssembleTemplate(tmpl, tmplCue, cfg, p) ==
    (IF GetImports(tmpl) /= "" THEN <<Line("import", GetImports(tmpl), "imports")>> ELSE <<>>)
    \o <<Line("context", OpenDeclaration, "declaration"),
         Line("context", SyntaxOrEmpty(tmplCue, "context"), "values"),
         Line("config", OpenDeclaration, "declaration"),
         Line("config", cfg, "values"),
         Line("parameter", SyntaxOrEmpty(tmplCue, "parameter"), "schema"),
         Line("parameter", GetParameters(p), "values")>>
    \o GetFields(tmplCue)
    \o <<Line("output", SyntaxOrEmpty(tmplCue, "output"), "values"),
         Line("outputs", SyntaxOrEmpty(tmplCue, "outputs"), "values")>>

\* The text GetConfiguration gives for the config field: the configs read,
\* {} without the field, nothing when it failed.
ConfigurationTexts(tmplCue) ==
    IF HasField(tmplCue, "config") THEN {Syntax("configMap"), ""} ELSE {EmptyStruct}

\* The field of the file with that label, as the getters of the data
\* renderer find it: its syntax, or what the getter returns without it.
DeclOr(tmpl, n, missing) == IF HasField(tmpl.fields, n) THEN Syntax(n) ELSE missing

\* getParameters of the data renderer: the marshalled map, "" without one.
getParameters(p) == IF p = "map" THEN Syntax("params") ELSE ""

\* ComponentDataRenderer.Render: the text it writes and compiles.
AssembleData(tmpl, p) ==
    <<Line("import", GetImports(tmpl), "imports"),
      Line("context", DeclOr(tmpl, "context", ""), "values"),
      Line("parameter", DeclOr(tmpl, "parameter", ""), "schema"),
      Line("parameter", getParameters(p), "values"),
      Line("$config", DeclOr(tmpl, "$config", EmptyStruct), "values"),
      Line("$data", DeclOr(tmpl, "$data", ""), "values")>>

\* The document variables outside a Render.
NoTemplate == [imports |-> FALSE, fields |-> <<>>]
NoDocumentRender == abstractTmpl = NoTemplate /\ params = "nil" /\ assembled = NotAssembled

(***************************************************************************)
(* EnableAddon of the addon provider: the addon is installed from the      *)
(* first registry that has it and its application is waited for            *)
(* (pkg/workflow/providers/addon/addon.go).                                *)
(***************************************************************************)
\* The names an addon is asked by, as strings.Split(name, "/") gives them.
AddonNames == {<<"fluxcd">>, <<"KubeVela", "fluxcd">>, <<"local", "fluxcd">>,
               <<"KubeVela", "addons", "fluxcd">>}

\* Params, without the version and the args.
AddonParams ==
    [name : AddonNames, overrideDefs : BOOLEAN, skipValidation : BOOLEAN]

\* What addon.EnableAddon returns for a registry: nil, ErrNotExist, ErrFetch
\* or another error.
InstallOutcomes == {"nil", "ErrNotExist", "ErrFetch", "error"}

\* A registry, with what installing the addon from it gives.
Registry(n, outcome) == [Name |-> n, install |-> outcome]

\* The registries of the cluster, in the order of the list.
RegistryNames == SubSeq(<<"KubeVela", "experimental", "mirror">>, 1, MaxRegistries)

\* What ListRegistries returns: an error, or some of the registries.
Listed(list) == [ok |-> TRUE, list |-> list]
ListFailed == [ok |-> FALSE, list |-> <<>>]
Listings ==
    {ListFailed}
    \cup UNION {{Listed([i \in 1..n |-> Registry(RegistryNames[i], o[i])])
                   : o \in [1..n -> InstallOutcomes]} : n \in 0..MaxRegistries}

\* splitSpecifyRegistry
splitSpecifyRegistry(res) ==
    IF Len(res) = 2 THEN [registryName |-> res[1], addonName |-> res[2], err |-> FALSE]
    ELSE IF Len(res) = 1 THEN [registryName |-> "", addonName |-> res[1], err |-> FALSE]
    ELSE [registryName |-> "", addonName |-> "", err |-> TRUE]

\* addonOptions that appends an option only for its parameter.
addonOptionsByParams(p) ==
    (IF p.skipValidation THEN <<"SkipValidateVersion">> ELSE <<>>)
    \o (IF p.overrideDefs THEN <<"OverrideDefinitions">> ELSE <<>>)

\* addonOptions: both options are appended first, then once more for their
\* parameters.
addonOptions(p) ==
    <<"SkipValidateVersion", "OverrideDefinitions">>
    \o (IF p.skipValidation THEN <<"SkipValidateVersion">> ELSE <<>>)
    \o (IF p.overrideDefs THEN <<"OverrideDefinitions">> ELSE <<>>)

\* Returns and error of EnableAddon.
EnableReturns(installed, err) == [Installed |-> installed, err |-> err]
NotReturned == [Installed |-> FALSE, err |-> Running]

\* The registries the loop installs from, in order: all, or the one named.
Tried(list, registryName) ==
    SelectSeq(list, LAMBDA r : registryName = "" \/ registryName = r.Name)

\* The registries the loop reaches: up to the first whose install does not
\* give ErrNotExist or ErrFetch.
RECURSIVE Reached_(_)
Reached_(tried) ==
    IF tried = <<>> THEN <<>>
    ELSE IF Head(tried).install \in {"ErrNotExist", "ErrFetch"}
    THEN <<Head(tried)>> \o Reached_(Tail(tried))
    ELSE <<Head(tried)>>

\* The phases of an application.
ApplicationRunning == "running"
ApplicationWorkflowSuspending == "workflowSuspending"
ApplicationWorkflowTerminated == "workflowTerminated"
ApplicationWorkflowFailed == "workflowFailed"
Phases == {ApplicationRunning, ApplicationWorkflowSuspending, ApplicationWorkflowTerminated,
           ApplicationWorkflowFailed, "rendering"}

\* What a Get of the application gives: an error or its phase.
Observations == {"error"} \cup Phases
NotObserved == "none"

\* waitApplicationRunning
trackInterval == 5
timeout == 600

\* The switch of waitApplicationRunning with a terminated workflow taken as
\* running.
VerdictTerminatedRuns(phase) ==
    IF phase \in {ApplicationRunning, ApplicationWorkflowSuspending,
                  ApplicationWorkflowTerminated} THEN "true"
    ELSE IF phase = ApplicationWorkflowFailed THEN "false"
    ELSE "wait"

\* The switch on app.Status.Phase: return true, return false, or go on.
Verdict(phase) ==
    IF phase \in {ApplicationRunning, ApplicationWorkflowSuspending} THEN "true"
    ELSE IF phase \in {ApplicationWorkflowTerminated, ApplicationWorkflowFailed} THEN "false"
    ELSE "wait"

\* The addon variables outside an EnableAddon.
NoAddon ==
    /\ addonParams = [name |-> <<>>, overrideDefs |-> FALSE, skipValidation |-> FALSE]
    /\ registries = ListFailed
    /\ installs = <<>>
    /\ addonPc = "idle"
    /\ elapsed = 0
    /\ observed = NotObserved
    /\ enableReturns = NotReturned

(***************************************************************************)
(* ReadConfig: the properties of a config are read from its secret, unless *)
(* the config is sensitive (common.ReadConfig, configreader.ReadConfig).   *)
(***************************************************************************)
\* The values of the annotation AnnotationConfigSensitive of a secret; ""
\* for a secret without it.
SensitiveAnnotations == {"", "true", "false", "TRUE"}

\* secret.Data["input-properties"]: the JSON of some properties, or bytes
\* that are no JSON object.
Malformed == [json |-> FALSE, properties |-> NoContent]
Json(properties) == [json |-> TRUE, properties |-> properties]
InputProperties == {Json(m) : m \in Contents} \cup {Malformed}

\* A secret.
Secret(annotation, properties) ==
    [found |-> TRUE, sensitive |-> annotation, properties |-> properties]
SecretNotFound == [found |-> FALSE, sensitive |-> "", properties |-> Malformed]
Secrets ==
    {SecretNotFound}
    \cup {Secret(a, p) : a \in SensitiveAnnotations, p \in InputProperties}

\* A map returned: nil, or a map with its entries.
NilMap == [nil |-> TRUE, entries |-> NoContent]
Map(entries) == [nil |-> FALSE, entries |-> entries]

\* var ErrSensitiveConfig
ErrSensitiveConfig == Err("ReadConfig", "the config is sensitive")

\* What a ReadConfig returns, with whether json.Unmarshal was given the data.
ReadResult(by, content, err, unmarshalled) ==
    [by |-> by, content |-> content, err |-> err, unmarshalled |-> unmarshalled]
NotRead == [by |-> ""]

\* common.ReadConfig without the test of the annotation.
commonReadConfigOfAnySecret(client, namespace) ==
    LET secret == client[namespace]
    IN  IF ~secret.found
        THEN ReadResult("common", NilMap, Err("Get", "not found"), FALSE)
        ELSE IF secret.properties = Malformed
        THEN ReadResult("common", NilMap, Err("Unmarshal", "unexpected end of JSON input"), TRUE)
        ELSE ReadResult("common", Map(secret.properties.properties), Ok, TRUE)

\* common.ReadConfig(ctx, client, namespace, name)
commonReadConfig(client, namespace) ==
    LET secret == client[namespace]
    IN  IF ~secret.found
        THEN ReadResult("common", NilMap, Err("Get", "not found"), FALSE)
        ELSE IF secret.sensitive = "true"
        THEN ReadResult("common", NilMap, ErrSensitiveConfig, FALSE)
        ELSE IF secret.properties = Malformed
        THEN ReadResult("common", NilMap, Err("Unmarshal", "unexpected end of JSON input"), TRUE)
        ELSE ReadResult("common", Map(secret.properties.properties), Ok, TRUE)

\* configreader.ReadConfig(ctx, namespace, name): an empty map with an error.
configreaderReadConfig(client, namespace) ==
    LET r == commonReadConfig(client, namespace)
    IN  IF r.err /= Ok
        THEN ReadResult("configreader", Map(NoContent), r.err, r.unmarshalled)
        ELSE ReadResult("configreader", r.content, Ok, r.unmarshalled)

\* The config variables outside a ReadConfig.
NoRead == cluster = <<>> /\ asked = "" /\ readConfig = NotRead

(***************************************************************************)
(* The specification of the lifecycle: Complete calls, one after the       *)
(* other, on one process context that starts empty.                        *)
(***************************************************************************)
Init ==
    /\ base = NilBase
    /\ auxiliaries = <<>>
    /\ pc = "idle"
    /\ kind = ""
    /\ name = ""
    /\ paramFile = ""
    /\ iter = <<>>
    /\ looked = NotLooked
    /\ result = Running
    /\ base0 = NilBase
    /\ aux0 = <<>>
    /\ engines = <<>>
    /\ cueErrs = <<>>
    /\ components = NothingExtracted
    /\ formatted = NotFormatted
    /\ NoComposition
    /\ NoRender
    /\ NoData
    /\ NoDocumentRender
    /\ NoAddon
    /\ NoRead

Next ==
    \/ Begin
    \/ Marshal
    \/ ContextFile
    \/ Compile
    \/ Validate
    \/ WorkloadOutput
    \/ OutputsLookup
    \/ OutputsNext
    \/ TraitProcessing
    \/ TraitPatch
    \/ TraitPatchOutputs
    \/ TraitErrs

Spec == Init /\ [][Next]_vars

(***************************************************************************)
(* The specification of the formatter: formatCueValidationErrors applied   *)
(* to a validation error of up to MaxErrs errors.                          *)
(***************************************************************************)
ErrLists == UNION {[1..n -> CueErrors] : n \in 1..MaxErrs}

FormatContext == "workload " \o WorkloadName \o " after merge parameter and context"

InitFmt ==
    /\ base = NilBase
    /\ auxiliaries = <<>>
    /\ pc = "idle"
    /\ kind = ""
    /\ name = ""
    /\ paramFile = ""
    /\ iter = <<>>
    /\ looked = NotLooked
    /\ result = Running
    /\ base0 = NilBase
    /\ aux0 = <<>>
    /\ engines = <<>>
    /\ cueErrs \in ErrLists
    /\ components \in Components
    /\ formatted = NotFormatted
    /\ NoComposition
    /\ NoRender
    /\ NoData
    /\ NoDocumentRender
    /\ NoAddon
    /\ NoRead

Format ==
    /\ formatted = NotFormatted
    /\ formatted' = formatCueValidationErrors(cueErrs, FormatContext, components)
    /\ UNCHANGED <<base, auxiliaries, pc, kind, name, paramFile, iter, looked, result,
                   base0, aux0, engines, cueErrs, components, compVars, cfgVars, dataVars, docVars, addonVars, readVars>>

NextFmt == Format

SpecFmt == InitFmt /\ [][NextFmt]_vars

(***************************************************************************)
(* The specification of the composition: processComposition applied to a   *)
(* root document and the components it names.                              *)
(***************************************************************************)
InitComp ==
    /\ base = NilBase
    /\ auxiliaries = <<>>
    /\ pc = "idle"
    /\ kind = ""
    /\ name = ""
    /\ paramFile = ""
    /\ iter = <<>>
    /\ looked = NotLooked
    /\ result = Running
    /\ base0 = NilBase
    /\ aux0 = <<>>
    /\ engines = <<>>
    /\ cueErrs = <<>>
    /\ components = NothingExtracted
    /\ formatted = NotFormatted
    /\ val \in Documents
    /\ compiled \in [{ComponentKeys[i] : i \in 1..Len(ComponentKeys)} -> Children]
    /\ composed = Running
    /\ NoRender
    /\ NoData
    /\ NoDocumentRender
    /\ NoAddon
    /\ NoRead

\* One call of processComposition.  Where a component did not load or did not
\* compile, the call goes on with what it has, or does not return.
ProcessComposition ==
    /\ composed = Running
    /\ \/ composed' = processComposition(val, compiled)
       \/ /\ \E c \in DOMAIN compiled : Failed(compiled[c])
          /\ composed' = Panic
    /\ UNCHANGED <<base, auxiliaries, pc, kind, name, paramFile, iter, looked, result,
                   base0, aux0, engines, fmtVars, val, compiled, cfgVars, dataVars, docVars, addonVars, readVars>>

NextComp == ProcessComposition

SpecComp == InitComp /\ [][NextComp]_vars

(***************************************************************************)
(* The specification of the render: one Render of a template with a config *)
(* struct, by either renderer.                                             *)
(***************************************************************************)
InitCfg ==
    /\ base = NilBase
    /\ auxiliaries = <<>>
    /\ pc = "idle"
    /\ kind = ""
    /\ name = ""
    /\ paramFile = ""
    /\ iter = <<>>
    /\ looked = NotLooked
    /\ result = Running
    /\ base0 = NilBase
    /\ aux0 = <<>>
    /\ engines = <<>>
    /\ cueErrs = <<>>
    /\ components = NothingExtracted
    /\ formatted = NotFormatted
    /\ NoComposition
    /\ config \in Configs
    /\ secrets \in [Namespaces -> Reads]
    /\ rendered = NotRendered
    /\ cancelled \in BOOLEAN
    /\ NoData
    /\ NoDocumentRender
    /\ NoAddon
    /\ NoRead

renderFrame ==
    UNCHANGED <<base, auxiliaries, pc, kind, name, paramFile, iter, looked, result,
                base0, aux0, engines, fmtVars, compVars, config, secrets, cancelled, dataVars, docVars, addonVars, readVars>>

\* Render(re, ctx, abstractTmpl, params) with the ComponentRenderEngine:
\* GetImports or PreRender fail, or the template is assembled.
RenderComponent ==
    /\ rendered = NotRendered
    /\ \/ \E step \in {"GetImports", "PreRender"} :
            rendered' = Rendered("component", Err(step, "invalid template"), NoDoc, <<>>)
       \/ rendered' = renderConfig(Seen(secrets, "component", cancelled), config)
    /\ renderFrame

\* ComponentDataRenderer.Render
RenderData ==
    /\ rendered = NotRendered
    /\ \E nilFill \in NilFills : rendered' = renderData(Seen(secrets, "data", cancelled), config, nilFill)
    /\ renderFrame

\* configprocessor.Process(val)
ProcessConfig ==
    /\ rendered = NotRendered
    /\ \E shape \in DataShapes : rendered' = Process(Seen(secrets, "configprocessor", cancelled), config, shape)
    /\ renderFrame

NextCfg == RenderComponent \/ RenderData \/ ProcessConfig

SpecCfg == InitCfg /\ [][NextCfg]_vars

(***************************************************************************)
(* The specification of getDataFromCue: one call for an entry of the data  *)
(* struct.                                                                 *)
(***************************************************************************)
InitData ==
    /\ base = NilBase
    /\ auxiliaries = <<>>
    /\ pc = "idle"
    /\ kind = ""
    /\ name = ""
    /\ paramFile = ""
    /\ iter = <<>>
    /\ looked = NotLooked
    /\ result = Running
    /\ base0 = NilBase
    /\ aux0 = <<>>
    /\ engines = <<>>
    /\ cueErrs = <<>>
    /\ components = NothingExtracted
    /\ formatted = NotFormatted
    /\ NoComposition
    /\ NoRender
    /\ data \in DataEntries
    /\ call \in Calls
    /\ returned = NotResolved
    /\ NoDocumentRender
    /\ NoAddon
    /\ NoRead

\* getDataFromCue(ctx, key, data)
GetDataFromCue ==
    /\ returned = NotResolved
    /\ returned' = getDataFromCue("db", data, call)
    /\ UNCHANGED <<base, auxiliaries, pc, kind, name, paramFile, iter, looked, result,
                   base0, aux0, engines, fmtVars, compVars, cfgVars, data, call, docVars, addonVars, readVars>>

NextData == GetDataFromCue

SpecData == InitData /\ [][NextData]_vars

(***************************************************************************)
(* The specification of the assembly: one Render of a template, by the     *)
(* Renderer of the component engine or by the data renderer.               *)
(***************************************************************************)
InitDoc ==
    /\ base = NilBase
    /\ auxiliaries = <<>>
    /\ pc = "idle"
    /\ kind = ""
    /\ name = ""
    /\ paramFile = ""
    /\ iter = <<>>
    /\ looked = NotLooked
    /\ result = Running
    /\ base0 = NilBase
    /\ aux0 = <<>>
    /\ engines = <<>>
    /\ cueErrs = <<>>
    /\ components = NothingExtracted
    /\ formatted = NotFormatted
    /\ NoComposition
    /\ NoRender
    /\ NoData
    /\ abstractTmpl \in AbstractTemplates
    /\ params \in RenderParams
    /\ assembled = NotAssembled
    /\ NoAddon
    /\ NoRead

docFrame ==
    UNCHANGED <<base, auxiliaries, pc, kind, name, paramFile, iter, looked, result,
                base0, aux0, engines, fmtVars, compVars, cfgVars, dataVars,
                abstractTmpl, params, addonVars, readVars>>

\* Renderer.Render(ctx, abstractTmpl, params): params.(map[string]interface{})
\* panics for params that is no such map; then Render with the engine.
RendererRender ==
    /\ assembled = NotAssembled
    /\ IF params = "nil"
       THEN assembled' = Panic
       ELSE \/ \E step \in {"GetImports", "PreRender"} :
                 assembled' = Err(step, "invalid template")
            \/ \E cfg \in ConfigurationTexts(PreRender(abstractTmpl)) :
                 assembled' = RenderedTemplate("component",
                                AssembleTemplate(abstractTmpl, PreRender(abstractTmpl), cfg, params))
    /\ docFrame

\* ComponentDataRenderer.Render(ctx, file, params)
DataRendererRender ==
    /\ assembled = NotAssembled
    /\ assembled' = RenderedTemplate("data", AssembleData(abstractTmpl, params))
    /\ docFrame

NextDoc == RendererRender \/ DataRendererRender

SpecDoc == InitDoc /\ [][NextDoc]_vars

(***************************************************************************)
(* The specification of the addon provider: one EnableAddon.               *)
(***************************************************************************)
InitAddon ==
    /\ base = NilBase
    /\ auxiliaries = <<>>
    /\ pc = "idle"
    /\ kind = ""
    /\ name = ""
    /\ paramFile = ""
    /\ iter = <<>>
    /\ looked = NotLooked
    /\ result = Running
    /\ base0 = NilBase
    /\ aux0 = <<>>
    /\ engines = <<>>
    /\ cueErrs = <<>>
    /\ components = NothingExtracted
    /\ formatted = NotFormatted
    /\ NoComposition
    /\ NoRender
    /\ NoData
    /\ NoDocumentRender
    /\ addonParams \in AddonParams
    /\ registries \in Listings
    /\ installs = <<>>
    /\ addonPc = "idle"
    /\ elapsed = 0
    /\ observed = NotObserved
    /\ enableReturns = NotReturned
    /\ NoRead

addonFrame ==
    UNCHANGED <<base, auxiliaries, pc, kind, name, paramFile, iter, looked, result,
                base0, aux0, engines, fmtVars, compVars, cfgVars, dataVars, docVars,
                addonParams, registries, readVars>>

\* EnableAddon(ctx, params) up to the wait for the application: the
\* registries are listed, the name is split, the addon is installed from the
\* registries in order until one has it.
EnableAddon ==
    /\ addonPc = "idle"
    /\ LET split == splitSpecifyRegistry(addonParams.name)
           reached == Reached_(Tried(registries.list, split.registryName))
           calls == [i \in 1..Len(reached) |->
                       [registry |-> reached[i].Name, opts |-> addonOptions(addonParams)]]
           return(err) ==
               /\ enableReturns' = EnableReturns(FALSE, err)
               /\ addonPc' = "done"
       IN  IF ~registries.ok
           THEN return(Err("ListRegistries", "list registries")) /\ installs' = <<>>
           ELSE IF split.err
           THEN return(Err("splitSpecifyRegistry", "invalid addon name")) /\ installs' = <<>>
           ELSE IF /\ split.registryName /= ""
                   /\ \A i \in 1..Len(registries.list) :
                         registries.list[i].Name /= split.registryName
           THEN /\ return(Err("registry", "specified registry " \o split.registryName
                                          \o " not exist"))
                /\ installs' = <<>>
           ELSE /\ installs' = calls
                /\ IF reached = <<>> \/ reached[Len(reached)].install \in {"ErrNotExist", "ErrFetch"}
                   THEN return(Err("notfound", "addon not found in any registries"))
                   ELSE IF reached[Len(reached)].install = "error"
                   THEN return(Err("EnableAddon", "install"))
                   ELSE /\ addonPc' = "wait"
                        /\ UNCHANGED enableReturns
    /\ UNCHANGED <<elapsed, observed>>
    /\ addonFrame

\* One pass of the loop of waitApplicationRunning, and the return of
\* EnableAddon when it ends the wait.
Poll ==
    /\ addonPc = "wait"
    /\ \E o \in Observations :
        /\ observed' = o
        /\ IF o = "error" \/ Verdict(o) = "false"
           THEN /\ enableReturns' = EnableReturns(FALSE, Err("wait", "addon failed to enable"))
                /\ addonPc' = "done"
                /\ UNCHANGED elapsed
           ELSE IF Verdict(o) = "true"
           THEN /\ enableReturns' = EnableReturns(TRUE, Ok)
                /\ addonPc' = "done"
                /\ UNCHANGED elapsed
           ELSE IF elapsed > timeout
           THEN /\ enableReturns' = EnableReturns(FALSE, Err("wait", "addon failed to enable"))
                /\ addonPc' = "done"
                /\ UNCHANGED elapsed
           ELSE /\ elapsed' = elapsed + trackInterval
                /\ UNCHANGED <<enableReturns, addonPc>>
    /\ UNCHANGED installs
    /\ addonFrame

NextAddon == EnableAddon \/ Poll

SpecAddon == InitAddon /\ [][NextAddon]_vars

(***************************************************************************)
(* The specification of ReadConfig: one read of the config of a name, by   *)
(* either function.                                                        *)
(***************************************************************************)
InitRead ==
    /\ base = NilBase
    /\ auxiliaries = <<>>
    /\ pc = "idle"
    /\ kind = ""
    /\ name = ""
    /\ paramFile = ""
    /\ iter = <<>>
    /\ looked = NotLooked
    /\ result = Running
    /\ base0 = NilBase
    /\ aux0 = <<>>
    /\ engines = <<>>
    /\ cueErrs = <<>>
    /\ components = NothingExtracted
    /\ formatted = NotFormatted
    /\ NoComposition
    /\ NoRender
    /\ NoData
    /\ NoDocumentRender
    /\ NoAddon
    /\ cluster \in [Namespaces -> Secrets]
    /\ asked \in Namespaces
    /\ readConfig = NotRead

readFrame ==
    UNCHANGED <<base, auxiliaries, pc, kind, name, paramFile, iter, looked, result,
                base0, aux0, engines, fmtVars, compVars, cfgVars, dataVars, docVars,
                addonVars, cluster, asked>>

\* common.ReadConfig(ctx, client, namespace, name)
CommonReadConfig ==
    /\ readConfig = NotRead
    /\ readConfig' = commonReadConfig(cluster, asked)
    /\ readFrame

\* configreader.ReadConfig(ctx, namespace, name)
ConfigreaderReadConfig ==
    /\ readConfig = NotRead
    /\ readConfig' = configreaderReadConfig(cluster, asked)
    /\ readFrame

NextRead == CommonReadConfig \/ ConfigreaderReadConfig

SpecRead == InitRead /\ [][NextRead]_vars

(***************************************************************************)
(* Properties of the lifecycle (Spec).                                     *)
(***************************************************************************)
\* The auxiliaries the running (or last) call has appended to the context.
Appended == SubSeq(auxiliaries, Len(aux0) + 1, Len(auxiliaries))

\* The steps of Complete that come before val.Validate() has returned nil.
BeforeValidated == {"marshal", "contextfile", "compile", "validate"}

\* The errors Complete returns from those steps.
EarlyErrors == {"marshal", "contextfile", "compile", "CueValidationError"}

\* C1: workload Complete publishes nothing before validation succeeds.  While
\* the call has not yet compiled and validated the merged document, and after
\* it has returned an error from marshalling, from the context file, from the
\* compilation or from Validate, the context's base and auxiliaries are what
\* they were when the call started.
C1_NothingPublishedBeforeValidation ==
    kind = "workload" =>
        /\ pc \in BeforeValidated => (base = base0 /\ auxiliaries = aux0)
        /\ (pc = "done" /\ IsError(result) /\ result.kind \in EarlyErrors)
              => (base = base0 /\ auxiliaries = aux0)
        /\ (base /= base0 \/ auxiliaries /= aux0)
              => (pc \in {"outputs", "iter", "done"} /\ looked.field \in {"output", "outputs"})

\* C1 witness: a workload Complete has returned the validation error.
C1_Witness ==
    /\ kind = "workload"
    /\ pc = "done"
    /\ IsError(result)
    /\ result.kind = "CueValidationError"
    /\ base = base0
    /\ auxiliaries = aux0

\* C2: whenever workload Complete returns an error, the context holds no base
\* and no Auxiliary produced by that call: base and auxiliaries are what they
\* were when the call started.
C2_FailedWorkloadLeavesNothing ==
    (kind = "workload" /\ pc = "done" /\ IsError(result))
        => (base = base0 /\ auxiliaries = aux0)

\* C3: whenever trait Complete returns an error, the base of the context is
\* identical to what it was before the call.
C3_FailedTraitLeavesBase ==
    (kind = "trait" /\ pc = "done" /\ IsError(result)) => base = base0

\* C4: when the patch step of trait Complete finds a patch field and the
\* context has no base, Complete has returned the error "patch trait <name>
\* into an invalid workload" and nothing was unified: the base is still nil
\* and the auxiliaries the context held are as they were.
C4_PatchWithoutBaseFails ==
    (kind = "trait" /\ looked.field = "patch" /\ looked.value.ok /\ base0 = NilBase)
        => /\ pc = "done"
           /\ IsError(result)
           /\ result.msg = "patch trait " \o name \o " into an invalid workload"
           /\ base = NilBase
           /\ SubSeq(auxiliaries, 1, Len(aux0)) = aux0

\* C4 witness: a trait with a patch was completed on a context with no base.
C4_Witness ==
    /\ kind = "trait"
    /\ looked.field = "patch"
    /\ looked.value.ok
    /\ base0 = NilBase
    /\ pc = "done"
    /\ IsError(result)

\* C5: when trait Complete reaches errs, it returns an error whose text is the
\* first element of the list that is a non-empty string; when errs is absent,
\* is no list, or holds no non-empty string, it returns nil.
C5_FirstNonEmptyErr ==
    looked.field = "errs" =>
        LET errs == looked.value
            hits == IF errs.exists /\ errs.list
                    THEN {i \in 1..Len(errs.elems) : errs.elems[i].str /\ errs.elems[i].s /= ""}
                    ELSE {}
            first == CHOOSE i \in hits : \A j \in hits : i <= j
        IN  /\ pc = "done"
            /\ IF hits = {}
               THEN result = Ok
               ELSE IsError(result) /\ result.msg = errs.elems[first].s

\* C5 witness: errs held an empty string before two non-empty ones, and the
\* first non-empty one is the error.
C5_Witness ==
    /\ looked.field = "errs"
    /\ looked.value.exists
    /\ looked.value.list
    /\ looked.value.elems = <<StrElem(""), StrElem("e1"), StrElem("e2")>>
    /\ IsError(result)
    /\ result.msg = "e1"

\* C6: the patchOutputs step, when the field exists, unifies patchOutputs.<n>
\* into every Auxiliary named n, leaves every Auxiliary with no such field as
\* it was, adds and removes none, leaves the base alone, and fails only when a
\* matching Auxiliary conflicts with its field; fields naming no Auxiliary
\* have no effect.
C6_PatchOutputsByName ==
    [][(pc = "patchOutputs" /\ looked'.field = "patchOutputs" /\ looked'.value.exists) =>
        LET fields == looked'.value.fields
            matching == {i \in 1..Len(auxiliaries) : fields[auxiliaries[i].Name].ok}
            conflicting == {i \in matching :
                               Conflicts(auxiliaries[i].Ins, fields[auxiliaries[i].Name].v)}
        IN  /\ Len(auxiliaries') = Len(auxiliaries)
            /\ base' = base
            /\ \A i \in (1..Len(auxiliaries)) \ matching : auxiliaries'[i] = auxiliaries[i]
            /\ \A i \in 1..Len(auxiliaries) :
                  /\ auxiliaries'[i].Name = auxiliaries[i].Name
                  /\ auxiliaries'[i].Type = auxiliaries[i].Type
            /\ IF conflicting = {}
               THEN /\ pc' = "errs"
                    /\ \A i \in matching :
                          auxiliaries'[i].Ins =
                              UnifyValue(auxiliaries[i].Ins, fields[auxiliaries[i].Name].v)
               ELSE /\ pc' = "done"
                    /\ IsError(result')
                    /\ result'.kind = "UnifyAuxiliary"]_vars

\* C6 witness: patchOutputs was applied to a context with an Auxiliary it has
\* a field for, now unified with it, and an Auxiliary it has none for, and it
\* has a field that names no Auxiliary.
C6_Witness ==
    /\ kind = "trait"
    /\ pc = "errs"
    /\ looked.field = "patchOutputs"
    /\ looked.value.exists
    /\ \E i \in 1..Len(auxiliaries) :
          /\ looked.value.fields[auxiliaries[i].Name].ok
          /\ looked.value.fields[auxiliaries[i].Name].v["k2"] = 1
          /\ auxiliaries[i].Ins = [k1 |-> 1, k2 |-> 1]
    /\ \E i \in 1..Len(auxiliaries) : ~looked.value.fields[auxiliaries[i].Name].ok
    /\ \E l \in Labels :
          /\ looked.value.fields[l].ok
          /\ \A i \in 1..Len(auxiliaries) : auxiliaries[i].Name /= l

\* The Auxiliary workloadDef.Complete is to register for a field of outputs.
WorkloadAuxiliary(f) == [Name |-> f.label, Type |-> AuxiliaryWorkload, Ins |-> f.value.v]

\* The auxiliaries to register for those of the fields yielded that pass `keep`.
Registered(keep(_)) ==
    LET kept == SelectSeq(iter, keep)
    IN  [i \in 1..Len(kept) |-> WorkloadAuxiliary(kept[i])]

IsRegular(f) == ~IsDefinition(f) /\ PkgPath(f) = "" /\ ~IsOptional(f)
NotScopedNorOptional(f) == PkgPath(f) = "" /\ ~IsOptional(f)

\* C7 (as the code has it): after a successful workload Complete the
\* auxiliaries the call appended are exactly the fields of outputs that are
\* neither definitions, nor package-scoped (hidden), nor optional, in the
\* order of the fields, one Auxiliary per field, named by the label and typed
\* AuxiliaryWorkload; none is appended when outputs is absent.
C7_RegularFieldsRegistered ==
    (kind = "workload" /\ pc = "done" /\ result = Ok) =>
        /\ Len(auxiliaries) >= Len(aux0)
        /\ SubSeq(auxiliaries, 1, Len(aux0)) = aux0
        /\ Appended = Registered(IsRegular)
        /\ looked.field = "outputs"
        /\ looked.value = "absent" => Appended = <<>>

\* C7 witness: a workload Complete succeeded whose outputs held a definition
\* and a regular field.
C7_Witness ==
    /\ kind = "workload"
    /\ pc = "done"
    /\ result = Ok
    /\ \E i \in 1..Len(iter) : IsDefinition(iter[i])
    /\ \E i \in 1..Len(iter) : IsRegular(iter[i])
    /\ Len(Appended) = 1

\* C7 as stated: after a successful workload Complete the auxiliaries the call
\* appended are exactly the fields of outputs that are neither package-scoped
\* nor optional, definitions included.
C7_AsStated ==
    (kind = "workload" /\ pc = "done" /\ result = Ok) =>
        Appended = Registered(NotScopedNorOptional)

\* C8: on a context whose first Complete was the workload's and whose later
\* ones were traits', every registered Auxiliary has a non-empty name and no
\* two registered Auxiliaries share a name.
C8_AuxiliaryNamesNonEmptyUnique ==
    (engines /= <<>> /\ engines[1] = "workload") =>
        /\ \A i \in 1..Len(auxiliaries) : auxiliaries[i].Name /= ""
        /\ \A i, j \in 1..Len(auxiliaries) :
              i /= j => auxiliaries[i].Name /= auxiliaries[j].Name

(***************************************************************************)
(* Properties of the formatter (SpecFmt).                                  *)
(***************************************************************************)
IsFormatted == formatted /= NotFormatted

\* The errors of cueErrs with the path and the message of cueErrs[i].
SamePair(i) ==
    {j \in 1..Len(cueErrs) :
        /\ PathStr(cueErrs[j].path) = PathStr(cueErrs[i].path)
        /\ MsgText(cueErrs[j].msg) = MsgText(cueErrs[i].msg)}

\* The messages at the path of cueErrs[i] that get an entry.
EntriesDue(i) ==
    {MsgText(cueErrs[j].msg) : j \in
        {k \in 1..Len(cueErrs) :
            /\ PathStr(cueErrs[k].path) = PathStr(cueErrs[i].path)
            /\ ~IsDisjunctionSummary(cueErrs[k].msg)}}

\* The lines of the result that open the block of a path.
BlocksOf(pathStr) ==
    {k \in 1..Len(formatted.formattedErrors) :
        formatted.formattedErrors[k] = "\n[" \o pathStr \o "]"}

\* The (path, message) pair of cueErrs[i] has one entry, counted and rendered
\* with the number of its occurrences, in one block.
OneEntry(i) ==
    LET pathStr == PathStr(cueErrs[i].path)
        msg == MsgText(cueErrs[i].msg)
        N == Cardinality(SamePair(i))
    IN  /\ pathStr \in DOMAIN formatted.errorGroups
        /\ msg \in DOMAIN formatted.errorIndex[pathStr]
        /\ LET group == formatted.errorGroups[pathStr]
               entry == formatted.errorIndex[pathStr][msg]
           IN  /\ group[entry].count = N
               /\ errorMessages(group)[entry]
                     = group[entry].message \o " (×" \o ToString(N) \o ")"
               /\ Len(group) = Cardinality(EntriesDue(i))
               /\ Cardinality(BlocksOf(pathStr)) = 1
               /\ Cardinality({k \in 1..Len(formatted.orderedPaths) :
                                  formatted.orderedPaths[k] = pathStr}) = 1

\* C9 (as the code has it): for any error list in which a (path, message)
\* pair occurs N >= 2 times and the message is no disjunction summary, the
\* formatter emits one entry for the pair, with count N and rendered once
\* followed by (×N), inside one [path] block; the path has as many entries as
\* it has distinct messages.
C9_RepeatedPairOneEntry ==
    IsFormatted =>
        \A i \in 1..Len(cueErrs) :
            (Cardinality(SamePair(i)) >= 2 /\ ~IsDisjunctionSummary(cueErrs[i].msg))
                => OneEntry(i)

\* C9 witness: a message occurred twice at one path, around another message
\* of that path, and was formatted into one entry of count 2 next to the
\* other message's entry.
C9_Witness ==
    /\ IsFormatted
    /\ Len(cueErrs) = 3
    /\ cueErrs[1] = cueErrs[3]
    /\ Cardinality(SamePair(1)) = 2
    /\ ~IsDisjunctionSummary(cueErrs[1].msg)
    /\ OneEntry(1)
    /\ Len(formatted.orderedPaths) = 1
    /\ Len(formatted.errorGroups[formatted.orderedPaths[1]]) = 2

\* C9 as stated: for any error list in which a (path, message) pair occurs
\* N >= 2 times, the formatter emits one entry for the pair with count N.
C9_AsStated ==
    IsFormatted =>
        \A i \in 1..Len(cueErrs) : Cardinality(SamePair(i)) >= 2 => OneEntry(i)

\* C10: the entries of one path never hold the same enriched message twice.
C10_NoEnrichedMessageTwice ==
    IsFormatted =>
        \A pathStr \in DOMAIN formatted.errorGroups :
            LET group == formatted.errorGroups[pathStr]
            IN  \A i, j \in 1..Len(group) :
                    i /= j => group[i].message /= group[j].message

\* The errors of cueErrs that are no disjunction summaries.
KeptErrs == SelectSeq(cueErrs, LAMBDA e : ~IsDisjunctionSummary(e.msg))

\* The dotted path of an error, named (root) when the error has no path.
DottedPath(path) == IF path = <<>> THEN "(root)" ELSE Join(path, ".")

RECURSIVE FirstSeen(_, _)
\* The dotted paths of errs in the order of their first occurrences, after seen.
FirstSeen(errs, seen) ==
    IF errs = <<>> THEN <<>>
    ELSE IF DottedPath(Head(errs).path) \in seen THEN FirstSeen(Tail(errs), seen)
    ELSE <<DottedPath(Head(errs).path)>>
         \o FirstSeen(Tail(errs), seen \cup {DottedPath(Head(errs).path)})

\* The line that opens the block of a path.
BlockHeader(pathStr) == "\n[" \o pathStr \o "]"

\* The lines of the result that open a block, in their order.
BlockHeaders ==
    SelectSeq(formatted.formattedErrors,
              LAMBDA l : l \in {BlockHeader(DottedPath(p)) : p \in Paths})

MessageValues == {"60", "1", ">=10"}

\* The texts a value can be replaced by.
Placeholders == {Provided(v) : v \in MessageValues} \cup {Default(v) : v \in MessageValues}

\* The enriched messages that hold a placeholder.
WithPlaceholder ==
    {EnrichedText(Enriched(form, a, b, "", "")) :
        form \in {"mismatch", "violates"},
        a \in MessageValues \cup Placeholders,
        b \in MessageValues \cup Placeholders}
    \ {EnrichedText(Enriched(form, a, b, "", "")) :
        form \in {"mismatch", "violates"}, a \in MessageValues, b \in MessageValues}

\* The entries of the formatted result: the message replaceValuesWithPlaceholders
\* returned and the field info it was given.
Entries ==
    UNION {{formatted.errorGroups[p][i] : i \in 1..Len(formatted.errorGroups[p])} :
              p \in DOMAIN formatted.errorGroups}

\* C12: a message holds a <provided(v)> or <default(v)> placeholder only when
\* the field info holds both a non-empty provided value (actual) and a
\* non-empty default; when either is missing the message holds no placeholder.
C12_PlaceholderNeedsBothValues ==
    IsFormatted =>
        \A d \in Entries :
            /\ d.message \in WithPlaceholder =>
                  (InfoGet(d.info, "actual") /= "" /\ InfoGet(d.info, "default") /= "")
            /\ (InfoGet(d.info, "actual") = "" \/ InfoGet(d.info, "default") = "") =>
                  d.message \notin WithPlaceholder

\* C12 witness: an entry whose field info holds both values and whose message
\* got the placeholder of the provided value.
C12_Witness ==
    /\ IsFormatted
    /\ \E d \in Entries :
          /\ d.message = "value <provided(1)> violates constraint >=10"
          /\ d.message \in WithPlaceholder
          /\ InfoGet(d.info, "actual") = "1"
          /\ InfoGet(d.info, "default") = "60"

(***************************************************************************)
(* Properties of the composition (SpecComp).                               *)
(***************************************************************************)
\* processComposition returned a document.
Composed == composed /= Running /\ composed /= Panic /\ ~IsError(composed)

\* C13: whenever composition.output is declared and the root document has an
\* output field, a call of processComposition that returns returns the error
\* "cannot declare output in base template and composition" and no document.
C13_OutputDeclaredTwice ==
    (composed /= Running /\ composed /= Panic
        /\ val.compositionOutput.exists /\ val.output.exists)
        => composed = [status |-> "error", kind |-> "composition",
                       msg |-> "cannot declare output in base template and composition"]

\* C13 witness: a composition with an output pointer on a root that declares
\* an output was processed, all components resolved.
C13_Witness ==
    /\ IsError(composed)
    /\ val.compositionOutput.exists
    /\ val.output.exists
    /\ \A c \in DOMAIN compiled : ~Failed(compiled[c])

\* C14: in the outputs map of the document returned, for every component c
\* that resolved, c.main is absent when the component's output equals the
\* root's standard output, and is present and holds the component's output
\* otherwise.
C14_MainUnlessStandard ==
    Composed =>
        \A c \in DOMAIN compiled :
            ~Failed(compiled[c]) =>
                LET out == compiled[c].output
                    std == composed.val.output
                    outs == composed.val.outputs.fields
                IN  IF std.exists /\ std = out
                    THEN (c \o ".main") \notin DOMAIN outs
                    ELSE (c \o ".main") \in DOMAIN outs /\ outs[c \o ".main"] = out

\* C14 witness: component a's output is the standard output, b's differs:
\* a.main is absent and b.main present.
C14_Witness ==
    /\ Composed
    /\ \A c \in DOMAIN compiled : ~Failed(compiled[c])
    /\ composed.val.output = compiled["a"].output
    /\ compiled["b"].output /= compiled["a"].output
    /\ "a.main" \notin DOMAIN composed.val.outputs.fields
    /\ "b.main" \in DOMAIN composed.val.outputs.fields

\* C15: for every component c and key k of its outputs, the outputs map holds
\* the entry c.k with that secondary output, unless the output equals the
\* standard output, in which case c.k is absent.
C15_SecondaryUnderComponent ==
    Composed =>
        \A c \in DOMAIN compiled :
            (~Failed(compiled[c]) /\ compiled[c].outputs.exists) =>
                \A k \in DOMAIN compiled[c].outputs.fields :
                    LET v == compiled[c].outputs.fields[k]
                        std == composed.val.output
                        outs == composed.val.outputs.fields
                    IN  IF std.exists /\ std = v
                        THEN (c \o "." \o k) \notin DOMAIN outs
                        ELSE (c \o "." \o k) \in DOMAIN outs /\ outs[c \o "." \o k] = v

\* The text is names with dots between them.
IsDotted(text) ==
    /\ Len(text) >= 3
    /\ \A i \in 1..Len(text) : (text[i] = ".") <=> (i % 2 = 0)
    /\ \A i \in 1..Len(text) : text[i] /= ","

\* The names of a dotted text, one per segment.
Segments(text) == [i \in 1..((Len(text) + 1) \div 2) |-> text[2 * i - 1]]

\* The value reached inside the components by following the segments.
Reached(comps, segs) ==
    IF segs[1] \notin DOMAIN comps THEN Absent
    ELSE IF Len(segs) = 2 /\ segs[2] = "output" THEN comps[segs[1]].output
    ELSE IF /\ Len(segs) = 3
            /\ segs[2] = "outputs"
            /\ comps[segs[1]].outputs.exists
            /\ segs[3] \in DOMAIN comps[segs[1]].outputs.fields
    THEN comps[segs[1]].outputs.fields[segs[3]]
    ELSE Absent

\* C16: when composition.output is a dotted path and the base template
\* declares no output, the output of the document returned is the value
\* reached by following the path segment by segment inside the components.
C16_OutputFollowsDottedPath ==
    (Composed /\ val.compositionOutput.exists /\ ~val.output.exists
        /\ IsDotted(val.compositionOutput.text))
        => composed.val.output
              = Reached(composed.components, Segments(val.compositionOutput.text))

\* C16 witness: composition.output is "a.output", the root declares no output
\* and the document returned has component a's output as its output.
C16_Witness ==
    /\ Composed
    /\ val.compositionOutput.exists
    /\ val.compositionOutput.text = <<"a", ".", "output">>
    /\ ~val.output.exists
    /\ ~Failed(compiled["a"])
    /\ composed.val.output = compiled["a"].output
    /\ composed.val.output.exists

\* C17: when a component's template cannot be loaded or its document does
\* not compile, processComposition ends with an error.
C17_FailedComponentFailsComposition ==
    (composed /= Running /\ \E c \in DOMAIN compiled : Failed(compiled[c]))
        => (composed /= Panic /\ IsError(composed))

\* The resolutions a finished Render made.
Resolved == IF rendered = NotRendered THEN {} ELSE DOMAIN rendered.resolutions

\* C18: when ReadConfig fails for an entry of the config struct, Render
\* returns an error and no document.
C18_FailedReadFailsRender ==
    \A i \in Resolved :
        (rendered.resolutions[i].called /\ ~rendered.resolutions[i].ok)
            => (IsError(rendered.err) /\ ~rendered.document.exists)

\* C19: for an entry whose name or namespace is present and no string, the
\* resolution is an error and ReadConfig is not called.
C19_NonStringNeverRead ==
    \A i \in Resolved :
        LET r == rendered.resolutions[i]
        IN  (config[r.key].name = NonString \/ config[r.key].namespace = NonString)
                => (~r.ok /\ ~r.called)

\* C20: for an entry <key> with name n and namespace ns whose ReadConfig
\* returned M, the document returned has M at <key>.output of its config.
C20_OutputIsWhatWasRead ==
    \A i \in Resolved :
        LET r == rendered.resolutions[i]
        IN  (r.called /\ r.ok /\ config[r.key].name.str /\ config[r.key].namespace.str
                /\ \A j \in Resolved : rendered.resolutions[j].ok)
                => /\ rendered.document.exists
                   /\ r.key \in DOMAIN rendered.document.config
                   /\ "output" \in DOMAIN rendered.document.config[r.key]
                   /\ rendered.document.config[r.key]["output"] = r.content

\* C21: an entry with a name and no namespace is resolved by a ReadConfig in
\* the system definition namespace; an entry with a namespace is resolved by
\* a ReadConfig in that namespace.
C21_NamespaceDefaultsToSystem ==
    \A i \in Resolved :
        LET r == rendered.resolutions[i]
            reference == config[r.key]
        IN  /\ (reference.name.exists /\ ~reference.namespace.exists)
                  => (r.called /\ r.namespace = SystemDefinitionNamespace)
            /\ (reference.name.exists /\ reference.namespace.str)
                  => (r.called /\ r.namespace = reference.namespace.s)


\* The provider named by the entry is one of the compiler's.
ProviderRegistered(entry) == entry["provider"] \in {StrValue(p) : p \in Providers}

\* C22: getDataFromCue returns an error when provider or function is absent,
\* when the provider is not registered and when the call fails; otherwise it
\* returns no error and the $returns of the result, or an empty value when
\* there is none; params, when present, is given to the call as $params.
C22_DataIsWhatTheProviderReturns ==
    (returned /= NotResolved) =>
        /\ IF \/ "provider" \notin DOMAIN data
              \/ "function" \notin DOMAIN data
              \/ ~ProviderRegistered(data)
              \/ ~call.ok
           THEN IsError(returned.err) /\ ~returned.value.exists
           ELSE /\ returned.err = Ok
                /\ returned.called
                /\ returned.value = call.returns
        /\ (returned.called /\ "params" \in DOMAIN data)
              => /\ "$params" \in DOMAIN returned.passed
                 /\ returned.passed["$params"] = data["params"]

\* C22 witness: an entry with params for a registered provider, whose call
\* gave a result with $returns, has returned it with no error.
C22_Witness ==
    /\ returned /= NotResolved
    /\ returned.err = Ok
    /\ returned.value = Res("X")
    /\ call = CallResult(Res("X"))
    /\ "params" \in DOMAIN data
    /\ returned.passed["$params"] = ("url" :> "a")


\* The lines of the document a finished Render returned.
Lines == IF assembled /= NotAssembled /\ assembled.status = "nil" THEN assembled.lines ELSE <<>>

\* The place of a line in the order of the sections: imports, context
\* declaration, context values, config declaration, config values, parameter
\* schema, parameter values, custom fields, output, outputs; 0 for a line
\* that is none of them.
SectionOf(line) ==
    CASE line.part = "imports" -> IF line.text = "" THEN 0 ELSE 1
      [] line.label = "context" /\ line.part = "declaration" -> 2
      [] line.label = "context" /\ line.part = "values" -> 3
      [] line.label = "config" /\ line.part = "declaration" -> 4
      [] line.label \in {"config", "$config"} /\ line.part = "values" -> 5
      [] line.label = "parameter" /\ line.part = "schema" -> 6
      [] line.label = "parameter" /\ line.part = "values" -> 7
      [] line.part = "field" -> 8
      [] line.label = "output" -> 9
      [] line.label = "outputs" -> 10
      [] OTHER -> 0

\* C23: in a document Render returned, the sections appear in the order
\* imports, context declaration, context values, config declaration, config
\* values, parameter schema, parameter values, custom fields, output,
\* outputs, each at most once.
C23_SectionsInFixedOrder ==
    \A i, j \in DOMAIN Lines :
        (i < j /\ SectionOf(Lines[i]) /= 0 /\ SectionOf(Lines[j]) /= 0)
            => \/ SectionOf(Lines[i]) < SectionOf(Lines[j])
               \/ SectionOf(Lines[i]) = 8 /\ SectionOf(Lines[j]) = 8

\* The labels of the custom fields of the document.
CustomFields == {Lines[i].label : i \in {j \in DOMAIN Lines : Lines[j].part = "field"}}

\* C24: the custom fields of a document of the component engine are the
\* regular top-level fields of the template whose name is not reserved, and
\* no reserved name is among them.
C24_CustomFieldsAreTheUnreservedFields ==
    (assembled /= NotAssembled /\ assembled.status = "nil" /\ assembled.by = "component") =>
        /\ CustomFields
             = {abstractTmpl.fields[i].name :
                  i \in {j \in DOMAIN abstractTmpl.fields :
                           /\ abstractTmpl.fields[j].kind = "regular"
                           /\ abstractTmpl.fields[j].name
                                \notin {"output", "outputs", "parameter", "context", "config"}}}
        /\ CustomFields \cap {"output", "outputs", "parameter", "context", "config"} = {}

\* C24 witness: a template with config, test, a definition, output and a
\* hidden field gives a document whose only custom field is test.
C24_Witness ==
    /\ assembled /= NotAssembled
    /\ assembled.status = "nil"
    /\ assembled.by = "component"
    /\ {abstractTmpl.fields[i].name : i \in DOMAIN abstractTmpl.fields}
         = {"config", "test", "#helper", "output", "_local"}
    /\ CustomFields = {"test"}

\* C25: a Render with nil params or an empty map of params does not panic,
\* and the parameter values of its document are the empty struct.
C25_NoParamsIsEmptyStruct ==
    (assembled /= NotAssembled /\ params \in {"nil", "nilmap", "empty"}) =>
        /\ assembled /= Panic
        /\ \A i \in DOMAIN Lines :
             (Lines[i].label = "parameter" /\ Lines[i].part = "values")
                => Lines[i].text = "{}"


\* C26: every read a render makes runs under the context of its caller, and
\* a render that made a read under a cancelled context returns an error and
\* no document.
C26_CancellationFailsRender ==
    \A i \in Resolved :
        rendered.resolutions[i].called
            => /\ RunsUnder(rendered.renderer) = "caller"
               /\ cancelled => (IsError(rendered.err) /\ ~rendered.document.exists)


\* The place of a position of traitDef.Complete in the order processing,
\* extraction of outputs, patch, patchOutputs, errs, end of the call.
TraitStep(p) ==
    CASE p = "processing" -> 1
      [] p \in {"outputs", "iter"} -> 2
      [] p = "patch" -> 3
      [] p = "patchOutputs" -> 4
      [] p = "errs" -> 5
      [] OTHER -> 6

\* C27: after validation a trait Complete goes through processing, the
\* extraction of outputs into the auxiliaries, patch into the base,
\* patchOutputs into the auxiliaries and the errs check, in this order and
\* each once; a step that fails ends the call with its error, and the base
\* and the auxiliaries change at their own steps only.
C27_TraitStepsInOrder ==
    [][(kind = "trait" /\ pc \in {"processing", "outputs", "iter", "patch", "patchOutputs", "errs"})
          => /\ IF IsError(result')
                THEN pc' = "done"
                ELSE \/ TraitStep(pc') = TraitStep(pc) + 1
                     \/ pc \in {"outputs", "iter"} /\ pc' = "iter"
             /\ base' /= base => pc = "patch"
             /\ auxiliaries' /= auxiliaries => pc \in {"iter", "patchOutputs"}]_vars

\* C27 witness: a trait Complete that has patched the base went through the
\* errs check and returned nil.
C27_Witness ==
    /\ kind = "trait"
    /\ pc = "done"
    /\ result = Ok
    /\ looked.field = "errs"
    /\ base /= base0
    /\ Len(auxiliaries) > Len(aux0)


\* The options of a call of addon.EnableAddon.
OptionsOf(install) == {install.opts[i] : i \in DOMAIN install.opts}

\* C28: an install made by EnableAddon has the override-definitions option
\* only when overrideDefs is true and the skip-validate-version option only
\* when skipValidation is true.
C28_OptionsOnlyWhenAsked ==
    \A i \in DOMAIN installs :
        /\ "OverrideDefinitions" \in OptionsOf(installs[i]) => addonParams.overrideDefs
        /\ "SkipValidateVersion" \in OptionsOf(installs[i]) => addonParams.skipValidation

\* What installing from the registry of the last install gave.
LastInstall ==
    LET last == installs[Len(installs)].registry
    IN  registries.list[CHOOSE i \in DOMAIN registries.list :
                            registries.list[i].Name = last].install

\* C30: EnableAddon returns Installed=true only after an install from a
\* registry succeeded and the application was seen Running or
\* WorkflowSuspending, and then with a nil error; in every other outcome it
\* returns Installed=false and an error.
C30_InstalledOnlyWhenSeenRunning ==
    (enableReturns /= NotReturned) =>
        /\ enableReturns.Installed
              => /\ enableReturns.err = Ok
                 /\ registries.ok
                 /\ installs /= <<>>
                 /\ LastInstall = "nil"
                 /\ observed \in {"running", "workflowSuspending"}
        /\ ~enableReturns.Installed => IsError(enableReturns.err)
        /\ (\/ ~registries.ok
            \/ Len(addonParams.name) > 2
            \/ installs = <<>>
            \/ observed \in {"error", "workflowTerminated", "workflowFailed"}
            \/ observed = "rendering" /\ elapsed > 600)
              => ~enableReturns.Installed

\* C30 witness: the first registry has no such addon, the install from the
\* second succeeded and the application, first seen in another phase, was
\* then seen suspending: Installed is true.
C30_Witness ==
    /\ enableReturns /= NotReturned
    /\ enableReturns.Installed
    /\ Len(installs) = 2
    /\ registries.list[1].install = "ErrNotExist"
    /\ observed = "workflowSuspending"
    /\ elapsed > 0


\* C29: for a secret annotated as a sensitive config ReadConfig returns
\* ErrSensitiveConfig, the data of the secret is not unmarshalled, and the
\* map returned is nil (common.ReadConfig) or empty (configreader.ReadConfig).
C29_SensitiveConfigIsNotRead ==
    (readConfig /= NotRead /\ cluster[asked].found /\ cluster[asked].sensitive = "true") =>
        /\ readConfig.err = Err("ReadConfig", "the config is sensitive")
        /\ ~readConfig.unmarshalled
        /\ DOMAIN readConfig.content.entries = {}
        /\ readConfig.by = "common" => readConfig.content.nil
        /\ readConfig.by = "configreader" => ~readConfig.content.nil

\* C29 witness: configreader.ReadConfig of a sensitive secret that holds
\* properties has returned the error and an empty map.
C29_Witness ==
    /\ readConfig /= NotRead
    /\ readConfig.by = "configreader"
    /\ cluster[asked] = Secret("true", Json(("host" :> "db" @@ "port" :> "5432")))
    /\ readConfig.err = ErrSensitiveConfig
    /\ readConfig.content = Map(NoContent)

=============================================================================
